---------------------------- MODULE Spec2Model ----------------------------
(***************************************************************************)
(* A model of the decision core of the ITM scalping bot:                   *)
(*   - the signal engine      (src/src/strategy/signal_generator.py),      *)
(*   - the indicator library  (src/src/indicators/*.py),                   *)
(*   - the backtester         (src/src/backtesting/backtest_engine.py),    *)
(*   - the risk manager       (src/src/risk_management/risk_controls.py).  *)
(*                                                                         *)
(* Units.  Prices, premiums and money are integers in paise (1/100 of a    *)
(* rupee); the floating point of the source is modelled by fixed point at  *)
(* that resolution, divisions rounding down.  Timestamps are minutes; the  *)
(* time of day of a timestamp t is t % 1440.  A signal strength is the     *)
(* number of conditions met, i.e. the source's strength times 6.  RSI and  *)
(* the volume ratio are kept in hundredths.  Rows of a frame are numbered  *)
(* from 1: row k of the model is the source's bar k-1.                     *)
(***************************************************************************)
EXTENDS Integers, Sequences, FiniteSets, TLC

VARIABLES
    data,             \* the OHLCV frame handed to generate_signals / run_backtest
    data2,            \* a second input frame (signal engine, comparison of two inputs)
    sg_status,        \* signal engine call: "idle", "returned" or "raised"
    signals_data,     \* the frame generate_signals returned (<<>> before / on raise)
    signals_data2,    \* the frame generate_signals returned for data2
    sg_status2,       \* the outcome of the call on data2
    initial_capital,  \* ITMBacktester.initial_capital
    current_capital,  \* ITMBacktester.current_capital
    trades,           \* ITMBacktester.trades: the closed trades, in closing order
    equity_curve,     \* ITMBacktester.equity_curve
    open_trades,      \* run_backtest's local list of open positions
    bt_pc,            \* run_backtest: "idle", "loop", "closing", "returned", "raised"
    bar,              \* row of signals_data the bar loop handles next
    bt_result,        \* what the last run_backtest call returned
    calls,            \* run_backtest calls started on this instance
    current_positions, \* RiskManager.current_positions: the ids of the positions
    daily_stats,      \* RiskManager.daily_stats
    risk_return,      \* the last RiskManager call: method, arguments, value
    component,        \* the object last constructed: class, stored config
    running,          \* ITMScalpingGUI.running
    buttons,          \* state of start_btn, pause_btn and stop_btn
    workers,          \* the data-simulation threads started so far, by position
    gui_current_data, \* ITMScalpingGUI.current_data: where it came from, bars added
    data_lock,        \* ITMScalpingGUI.data_lock: 0 free, else the thread holding it
    ui_pc             \* the UI thread: "idle" or its position in a callback

sig_vars == <<data, data2, sg_status, signals_data, signals_data2, sg_status2>>

bt_vars == <<initial_capital, current_capital, trades, equity_curve,
             open_trades, bt_pc, bar, bt_result, calls>>

risk_vars == <<current_positions, daily_stats, risk_return>>

cfg_vars == <<component>>

gui_vars == <<running, buttons, workers>>

buf_vars == <<gui_current_data, data_lock, ui_pc>>

vars == <<sig_vars, bt_vars, risk_vars, cfg_vars, gui_vars, buf_vars>>

----------------------------------------------------------------------------
(* Configuration: ITMScalpingSignals._default_config                      *)

ema_fast == 9
ema_slow == 21
rsi_period == 14
\* RSI bands, in RSI points
rsi_buy_min == 45
rsi_buy_max == 65
rsi_sell_min == 35
rsi_sell_max == 55
\* 1.5 x average volume, in hundredths
volume_multiplier == 150
volume_period == 20
avoid_first_minutes == 15
avoid_last_minutes == 15
\* '09:15' and '15:30' as minutes of the day
market_start == 555
market_end == 930
\* 0.6, in hundredths
min_confidence == 60
total_conditions == 6

MinutesPerDay == 1440

\* the undefined value of a derived column (NaN)
NaN == -1

Max2(a, b) == IF a >= b THEN a ELSE b
Min2(a, b) == IF a <= b THEN a ELSE b
Max3(a, b, c) == Max2(a, Max2(b, c))

----------------------------------------------------------------------------
(* Indicator library                                                       *)

\* pandas ewm(alpha = 2/(period+1), adjust=False).mean() of column xs:
\* y[1] = x[1], y[k] = alpha*x[k] + (1-alpha)*y[k-1]; acc holds y[1..k-1]
RECURSIVE ewm_mean(_, _, _)
ewm_mean(xs, period, acc) ==
    IF Len(acc) = Len(xs) THEN acc
    ELSE LET k == Len(acc) + 1
             y == IF k = 1 THEN xs[1]
                  ELSE (2 * xs[k] + (period - 1) * acc[k-1]) \div (period + 1)
         IN  ewm_mean(xs, period, Append(acc, y))

\* MovingAverages.ema
ema(xs, period) == ewm_mean(xs, period, <<>>)

\* cumsum of column xs; acc holds the sums of rows 1..k-1
RECURSIVE cumsum(_, _)
cumsum(xs, acc) ==
    IF Len(acc) = Len(xs) THEN acc
    ELSE LET k == Len(acc) + 1
         IN  cumsum(xs, Append(acc, xs[k] + (IF k = 1 THEN 0 ELSE acc[k-1])))

\* MomentumIndicators.rsi, in hundredths; NaN where average gain and
\* average loss are both 0 (0/0), 100 where only the average loss is 0
rsi(xs, period) ==
    LET delta(k)  == IF k = 1 THEN 0 ELSE xs[k] - xs[k-1]
        gains     == [k \in 1..Len(xs) |-> IF delta(k) > 0 THEN delta(k) ELSE 0]
        losses    == [k \in 1..Len(xs) |-> IF delta(k) < 0 THEN -delta(k) ELSE 0]
        avg_gains  == ewm_mean(gains, period, <<>>)
        avg_losses == ewm_mean(losses, period, <<>>)
    IN  [k \in 1..Len(xs) |->
            IF avg_gains[k] + avg_losses[k] = 0 THEN NaN
            ELSE (10000 * avg_gains[k]) \div (avg_gains[k] + avg_losses[k])]

\* a variant of vwap: one whole-frame average on every row
vwap_whole_frame(df) ==
    LET num == cumsum([k \in 1..Len(df) |->
                   (df[k].high + df[k].low + df[k].close) * df[k].volume], <<>>)
        den == cumsum([k \in 1..Len(df) |-> 3 * df[k].volume], <<>>)
    IN  [k \in 1..Len(df) |-> [num |-> num[Len(df)], den |-> den[Len(df)]]]

\* MovingAverages.vwap, cumulative, as the exact fraction num/den:
\* cumsum((high+low+close)/3 * volume) / cumsum(volume)
vwap(df) ==
    LET num == cumsum([k \in 1..Len(df) |->
                   (df[k].high + df[k].low + df[k].close) * df[k].volume], <<>>)
        den == cumsum([k \in 1..Len(df) |-> 3 * df[k].volume], <<>>)
    IN  [k \in 1..Len(df) |-> [num |-> num[k], den |-> den[k]]]

\* volume / volume.rolling(window).mean(), in hundredths; NaN until the
\* window is full and where the window's volume is 0
volume_ratio(df, window) ==
    LET csum == cumsum([k \in 1..Len(df) |-> df[k].volume], <<>>)
        wsum(k) == csum[k] - (IF k > window THEN csum[k - window] ELSE 0)
    IN  [k \in 1..Len(df) |->
            IF k < window \/ wsum(k) = 0 THEN NaN
            ELSE (100 * window * df[k].volume) \div wsum(k)]

\* close.pct_change(), in units of 1e-5; row 1 has no previous close
price_change(df) ==
    [k \in 1..Len(df) |->
        IF k = 1 THEN 0
        ELSE ((df[k].close - df[k-1].close) * 100000) \div df[k-1].close]


----------------------------------------------------------------------------
(* Signal engine: ITMScalpingSignals                                       *)

\* a variant of InsufficientData: the bound itself counted as too short
InsufficientData_inclusive(df) ==
    Len(df) <= Max3(ema_slow, rsi_period, volume_period)

\* the length test at the head of calculate_indicators (a ValueError)
InsufficientData(df) ==
    Len(df) < Max3(ema_slow, rsi_period, volume_period)

\* calculate_indicators: a copy of df with the derived columns added.
\* (macd and volatility are computed by the source too; no signal reads them.)
calculate_indicators(df) ==
    LET closes == [k \in 1..Len(df) |-> df[k].close]
        e9  == ema(closes, ema_fast)
        e21 == ema(closes, ema_slow)
        r   == rsi(closes, rsi_period)
        vw  == vwap(df)
        vr  == volume_ratio(df, volume_period)
        pc  == price_change(df)
    IN  [k \in 1..Len(df) |->
            [timestamp |-> df[k].timestamp, open |-> df[k].open,
             high |-> df[k].high, low |-> df[k].low, close |-> df[k].close,
             volume |-> df[k].volume,
             ema_9 |-> e9[k], ema_21 |-> e21[k], rsi |-> r[k], vwap |-> vw[k],
             volume_ratio |-> vr[k], price_change |-> pc[k]]]

\* a variant of check_time_filter: the opening margin is not tested
check_time_filter_no_opening(timestamp) ==
    IF timestamp = NaN THEN FALSE
    ELSE timestamp % MinutesPerDay <= market_end - avoid_last_minutes

\* check_time_filter: inside [market_start + avoid_first, market_end - avoid_last]
check_time_filter(timestamp) ==
    IF timestamp = NaN THEN FALSE
    ELSE LET current_time == timestamp % MinutesPerDay
             avoid_until  == market_start + avoid_first_minutes
             avoid_after  == market_end - avoid_last_minutes
         IN  current_time >= avoid_until /\ current_time <= avoid_after

B2N(b) == IF b THEN 1 ELSE 0

\* the six bullish conditions of row k (k >= 2), as a count
bullish_conditions_met(ind, k) ==
    LET cur == ind[k]
        prv == ind[k-1]
    IN    B2N(cur.vwap.den > 0 /\ cur.close * cur.vwap.den > cur.vwap.num)
        + B2N(cur.ema_9 > cur.ema_21)
        + B2N(cur.ema_9 > cur.ema_21 /\ prv.ema_9 <= prv.ema_21)
        + B2N(cur.rsi # NaN /\ rsi_buy_min * 100 <= cur.rsi
                            /\ cur.rsi <= rsi_buy_max * 100)
        + B2N(cur.volume_ratio # NaN /\ cur.volume_ratio >= volume_multiplier)
        + B2N(cur.close > cur.open /\ cur.price_change > 0)

\* a variant of bearish_conditions_met: the EMA momentum condition not
\* mirrored
bearish_conditions_met_ema_above(ind, k) ==
    LET cur == ind[k]
        prv == ind[k-1]
    IN    B2N(cur.vwap.den > 0 /\ cur.close * cur.vwap.den < cur.vwap.num)
        + B2N(cur.ema_9 > cur.ema_21)
        + B2N(cur.ema_9 < cur.ema_21 /\ prv.ema_9 >= prv.ema_21)
        + B2N(cur.rsi # NaN /\ rsi_sell_min * 100 <= cur.rsi
                            /\ cur.rsi <= rsi_sell_max * 100)
        + B2N(cur.volume_ratio # NaN /\ cur.volume_ratio >= volume_multiplier)
        + B2N(cur.close < cur.open /\ cur.price_change < 0)

\* the six bearish conditions of row k (k >= 2), as a count
bearish_conditions_met(ind, k) ==
    LET cur == ind[k]
        prv == ind[k-1]
    IN    B2N(cur.vwap.den > 0 /\ cur.close * cur.vwap.den < cur.vwap.num)
        + B2N(cur.ema_9 < cur.ema_21)
        + B2N(cur.ema_9 < cur.ema_21 /\ prv.ema_9 >= prv.ema_21)
        + B2N(cur.rsi # NaN /\ rsi_sell_min * 100 <= cur.rsi
                            /\ cur.rsi <= rsi_sell_max * 100)
        + B2N(cur.volume_ratio # NaN /\ cur.volume_ratio >= volume_multiplier)
        + B2N(cur.close < cur.open /\ cur.price_change < 0)

\* a variant of meets_confidence: the strength taken by integer division
meets_confidence_intdiv(met) ==
    (met \div total_conditions) * 100 >= min_confidence

\* signal_strength >= min_confidence, with signal_strength = met / total
meets_confidence(met) ==
    met * 100 >= min_confidence * total_conditions

\* generate_bullish_signals: a column of strengths (in sixths), 0 by default
generate_bullish_signals(ind) ==
    [k \in 1..Len(ind) |->
        IF k = 1 THEN 0
        ELSE IF ~check_time_filter(ind[k].timestamp) THEN 0
        ELSE IF meets_confidence(bullish_conditions_met(ind, k))
             THEN bullish_conditions_met(ind, k)
             ELSE 0]

\* generate_bearish_signals: the mirrored column
generate_bearish_signals(ind) ==
    [k \in 1..Len(ind) |->
        IF k = 1 THEN 0
        ELSE IF ~check_time_filter(ind[k].timestamp) THEN 0
        ELSE IF meets_confidence(bearish_conditions_met(ind, k))
             THEN bearish_conditions_met(ind, k)
             ELSE 0]

\* a variant of combine_signals: the bullish mask written last
combine_signals_bullish_last(bull, bear) ==
    LET after_bear == IF bear > 0
                      THEN [signal_type |-> "BUY_PE", signal_strength |-> bear]
                      ELSE [signal_type |-> "NONE", signal_strength |-> 0]
    IN  IF bull > 0
        THEN [signal_type |-> "BUY_CE", signal_strength |-> bull]
        ELSE after_bear

\* the combination step of generate_signals: NONE / 0 by default, the bullish
\* mask written first, the bearish mask written second
combine_signals(bull, bear) ==
    LET after_bull == IF bull > 0
                      THEN [signal_type |-> "BUY_CE", signal_strength |-> bull]
                      ELSE [signal_type |-> "NONE", signal_strength |-> 0]
    IN  IF bear > 0
        THEN [signal_type |-> "BUY_PE", signal_strength |-> bear]
        ELSE after_bull

\* generate_signals on a frame long enough: one row per input row
generate_signals(df) ==
    LET ind  == calculate_indicators(df)
        bull == generate_bullish_signals(ind)
        bear == generate_bearish_signals(ind)
    IN  [k \in 1..Len(df) |->
            LET c == combine_signals(bull[k], bear[k])
            IN  [timestamp |-> df[k].timestamp, open |-> df[k].open,
                 high |-> df[k].high, low |-> df[k].low, close |-> df[k].close,
                 volume |-> df[k].volume,
                 bullish_signals |-> bull[k], bearish_signals |-> bear[k],
                 signal_type |-> c.signal_type,
                 signal_strength |-> c.signal_strength]]

----------------------------------------------------------------------------
(* Input frames                                                            *)

\* the longest tail of freely chosen bars after the flat warm-up
MaxTail == 4

BasePrice == 10000
BaseVolume == 10

\* a session: timestamp of the first bar and minutes between bars
Sessions ==
    { [start |-> 548, step |-> 1],      \* 09:08, crosses the 09:30 margin
      [start |-> 600, step |-> 1],      \* 10:00
      [start |-> 600, step |-> 5],      \* 10:00, five-minute bars
      [start |-> 894, step |-> 1] }     \* 14:54, crosses the 15:15 margin

\* a bar relative to the previous close: close delta, open offset, upper
\* wick, volume
Moves ==
    { [dc |->  250, dopen |-> 0, wick |-> 0, vol |-> 40],
      [dc |-> -450, dopen |-> 0, wick |-> 0, vol |-> 40],
      [dc |-> -1600, dopen |-> 0, wick |-> 0, vol |-> 40] }

WarmLen == Max3(ema_slow, rsi_period, volume_period) - 1

FlatBar(t) ==
    [timestamp |-> t, open |-> BasePrice, high |-> BasePrice,
     low |-> BasePrice, close |-> BasePrice, volume |-> BaseVolume]

MoveBar(prev_close, t, m) ==
    LET o == prev_close + m.dopen
        c == prev_close + m.dc
    IN  [timestamp |-> t, open |-> o, high |-> Max2(o, c) + m.wick,
         low |-> Min2(o, c), close |-> c, volume |-> m.vol]

RECURSIVE Extend(_, _, _)
Extend(df, step, tail) ==
    IF tail = <<>> THEN df
    ELSE Extend(Append(df, MoveBar(df[Len(df)].close,
                                   df[Len(df)].timestamp + step, tail[1])),
                step, Tail(tail))

Warm(session, n) ==
    [k \in 1..n |-> FlatBar(session.start + (k - 1) * session.step)]

\* hand-made tails: a bar on which both directions meet four conditions
\* (a fresh upward EMA cross on a red candle below a VWAP lifted by a long
\* wick), and two quiet rising bars (the second meets three conditions)
CraftedTails ==
    { << [dc |-> -6000, dopen |-> 0, wick |-> 0, vol |-> 100],
         [dc |-> 9000, dopen |-> 0, wick |-> 30000, vol |-> 100],
         [dc |-> -2000, dopen |-> -500, wick |-> 0, vol |-> 100] >>,
      << [dc |-> 250, dopen |-> 0, wick |-> 0, vol |-> BaseVolume],
         [dc |-> 250, dopen |-> 0, wick |-> 0, vol |-> BaseVolume] >> }

Tails == UNION { [1..n -> Moves] : n \in 0..MaxTail } \cup CraftedTails

\* the empty frame, a single bar, and every warm-up followed by a tail
SeriesSet ==
    { <<>> } \cup { Warm(s, 1) : s \in Sessions }
      \cup { Extend(Warm(s, WarmLen), s.step, t) : s \in Sessions, t \in Tails }

----------------------------------------------------------------------------
(* Backtester: ITMBacktester                                               *)

\* ITMBacktester._default_config; money in rupees, points in rupees
position_size_per_trade == 10000
max_positions == 3
commission_per_trade == 20
\* 0.5 points, in paise
slippage_points == 50
option_multiplier == 75
\* 0.02, in hundredths
itm_premium_factor == 2
force_exit_minutes == 5
stop_loss_points == 10
profit_target_1 == 8
profit_target_2 == 15
\* get_itm_strike: 50 points in the money
itm_offset == 50
\* check_exit_conditions: a reverse signal needs strength > 0.7 (hundredths)
reverse_min_strength == 70

Paise(rupees) == rupees * 100

\* the unset fields of an open trade (None)
None == NaN

\* round(x, 0) of a non-negative amount: to the nearest rupee, halves to even
round0(x) ==
    LET q == x \div 100
        r == x % 100
    IN  IF r < 50 THEN 100 * q
        ELSE IF r > 50 THEN 100 * (q + 1)
        ELSE IF q % 2 = 0 THEN 100 * q ELSE 100 * (q + 1)

\* calculate_option_premium: intrinsic value + spot * itm_premium_factor
calculate_option_premium(spot_price, strike_price, option_type) ==
    LET intrinsic_value == IF option_type = "CE"
                           THEN Max2(0, spot_price - strike_price)
                           ELSE Max2(0, strike_price - spot_price)
        time_value == (spot_price * itm_premium_factor) \div 100
    IN  intrinsic_value + time_value

\* get_itm_strike
get_itm_strike(spot_price, option_type) ==
    IF option_type = "CE" THEN round0(spot_price - Paise(itm_offset))
    ELSE round0(spot_price + Paise(itm_offset))

\* a variant of execute_trade: a call option bought whatever the signal
execute_trade_always_ce(signal, index) ==
    LET option_type == "CE"
        strike == get_itm_strike(signal.close, option_type)
        entry_premium ==
            calculate_option_premium(signal.close, strike, option_type)
              + slippage_points
        quantity == Max2(Paise(position_size_per_trade)
                            \div (entry_premium * option_multiplier), 1)
    IN  [entry_time |-> signal.timestamp, entry_index |-> index,
         signal_type |-> signal.signal_type, option_type |-> option_type,
         strike |-> strike, spot_price |-> signal.close,
         entry_premium |-> entry_premium, quantity |-> quantity,
         signal_strength |-> signal.signal_strength, status |-> "OPEN",
         exit_time |-> None, exit_premium |-> None, pnl |-> 0,
         pnl_points |-> 0, exit_reason |-> "None", hold_time_minutes |-> 0,
         commission |-> Paise(commission_per_trade * 2)]

\* execute_trade for a row whose signal_type is BUY_CE or BUY_PE; index is
\* the row's label in the frame (the source counts rows from 0)
execute_trade(signal, index) ==
    LET option_type == IF signal.signal_type = "BUY_CE" THEN "CE" ELSE "PE"
        strike == get_itm_strike(signal.close, option_type)
        entry_premium ==
            calculate_option_premium(signal.close, strike, option_type)
              + slippage_points
        quantity == Max2(Paise(position_size_per_trade)
                            \div (entry_premium * option_multiplier), 1)
    IN  [entry_time |-> signal.timestamp, entry_index |-> index,
         signal_type |-> signal.signal_type, option_type |-> option_type,
         strike |-> strike, spot_price |-> signal.close,
         entry_premium |-> entry_premium, quantity |-> quantity,
         signal_strength |-> signal.signal_strength, status |-> "OPEN",
         exit_time |-> None, exit_premium |-> None, pnl |-> 0,
         pnl_points |-> 0, exit_reason |-> "None", hold_time_minutes |-> 0,
         commission |-> Paise(commission_per_trade * 2)]

\* a variant of check_exit_conditions: the time limit excludes its bound
check_exit_conditions_time_gt(trade, current_data, minutes_held) ==
    LET current_premium ==
            calculate_option_premium(current_data.close, trade.strike,
                                     trade.option_type)
        pnl_points == current_premium - trade.entry_premium
        opposite_signal ==
            IF trade.signal_type = "BUY_CE" THEN "BUY_PE" ELSE "BUY_CE"
        exit(reason) == [should_exit |-> TRUE, exit_reason |-> reason,
                         exit_premium |-> current_premium]
    IN  IF minutes_held > force_exit_minutes THEN exit("time_limit")
        ELSE IF pnl_points <= -Paise(stop_loss_points) THEN exit("stop_loss")
        ELSE IF pnl_points >= Paise(profit_target_2) THEN exit("profit_target_2")
        ELSE IF pnl_points >= Paise(profit_target_1) THEN exit("profit_target_1")
        ELSE IF /\ current_data.signal_type = opposite_signal
                /\ current_data.signal_strength * 100
                     > reverse_min_strength * total_conditions
             THEN exit("reverse_signal")
        ELSE [should_exit |-> FALSE, exit_reason |-> "None",
              exit_premium |-> current_premium]

\* a variant of check_exit_conditions: the stop loss tested before the
\* time limit
check_exit_conditions_stop_first(trade, current_data, minutes_held) ==
    LET current_premium ==
            calculate_option_premium(current_data.close, trade.strike,
                                     trade.option_type)
        pnl_points == current_premium - trade.entry_premium
        opposite_signal ==
            IF trade.signal_type = "BUY_CE" THEN "BUY_PE" ELSE "BUY_CE"
        exit(reason) == [should_exit |-> TRUE, exit_reason |-> reason,
                         exit_premium |-> current_premium]
    IN  IF pnl_points <= -Paise(stop_loss_points) THEN exit("stop_loss")
        ELSE IF minutes_held >= force_exit_minutes THEN exit("time_limit")
        ELSE IF pnl_points >= Paise(profit_target_2) THEN exit("profit_target_2")
        ELSE IF pnl_points >= Paise(profit_target_1) THEN exit("profit_target_1")
        ELSE IF /\ current_data.signal_type = opposite_signal
                /\ current_data.signal_strength * 100
                     > reverse_min_strength * total_conditions
             THEN exit("reverse_signal")
        ELSE [should_exit |-> FALSE, exit_reason |-> "None",
              exit_premium |-> current_premium]

\* check_exit_conditions: (should_exit, exit_reason, exit_premium)
check_exit_conditions(trade, current_data, minutes_held) ==
    LET current_premium ==
            calculate_option_premium(current_data.close, trade.strike,
                                     trade.option_type)
        pnl_points == current_premium - trade.entry_premium
        opposite_signal ==
            IF trade.signal_type = "BUY_CE" THEN "BUY_PE" ELSE "BUY_CE"
        exit(reason) == [should_exit |-> TRUE, exit_reason |-> reason,
                         exit_premium |-> current_premium]
    IN  IF minutes_held >= force_exit_minutes THEN exit("time_limit")
        ELSE IF pnl_points <= -Paise(stop_loss_points) THEN exit("stop_loss")
        ELSE IF pnl_points >= Paise(profit_target_2) THEN exit("profit_target_2")
        ELSE IF pnl_points >= Paise(profit_target_1) THEN exit("profit_target_1")
        ELSE IF /\ current_data.signal_type = opposite_signal
                /\ current_data.signal_strength * 100
                     > reverse_min_strength * total_conditions
             THEN exit("reverse_signal")
        ELSE [should_exit |-> FALSE, exit_reason |-> "None",
              exit_premium |-> current_premium]

\* the fields run_backtest writes when it closes a trade
close_trade(trade, exit_time, exit_premium, hold_time, exit_reason) ==
    LET slipped    == exit_premium - slippage_points
        pnl_points == slipped - trade.entry_premium
    IN  [trade EXCEPT
            !.exit_time = exit_time,
            !.exit_premium = slipped,
            !.hold_time_minutes = hold_time,
            !.exit_reason = exit_reason,
            !.status = "CLOSED",
            !.pnl_points = pnl_points,
            !.pnl = pnl_points * trade.quantity * option_multiplier
                      - trade.commission]

\* a variant of exit_pass: a closed trade is not removed from open_trades
RECURSIVE exit_pass_keeps_open(_, _, _)
exit_pass_keeps_open(todo, row, acc) ==
    IF todo = <<>> THEN acc
    ELSE LET trade     == Head(todo)
             hold_time == row.timestamp - trade.entry_time
             chk       == check_exit_conditions(trade, row, hold_time)
         IN  IF chk.should_exit
             THEN exit_pass_keeps_open(Tail(todo), row,
                    [closed |-> Append(acc.closed,
                        close_trade(trade, row.timestamp, chk.exit_premium,
                                    hold_time, chk.exit_reason)),
                     remaining |-> Append(acc.remaining, trade)])
             ELSE exit_pass_keeps_open(Tail(todo), row,
                    [acc EXCEPT !.remaining = Append(@, trade)])

\* the exit pass of one bar over a copy of open_trades, in list order:
\* acc.closed are the trades closed at this row, acc.remaining stay open
RECURSIVE exit_pass(_, _, _)
exit_pass(todo, row, acc) ==
    IF todo = <<>> THEN acc
    ELSE LET trade     == Head(todo)
             hold_time == row.timestamp - trade.entry_time
             chk       == check_exit_conditions(trade, row, hold_time)
         IN  IF chk.should_exit
             THEN exit_pass(Tail(todo), row,
                    [acc EXCEPT !.closed = Append(@,
                        close_trade(trade, row.timestamp, chk.exit_premium,
                                    hold_time, chk.exit_reason))])
             ELSE exit_pass(Tail(todo), row,
                    [acc EXCEPT !.remaining = Append(@, trade)])

RECURSIVE sum_pnl(_)
sum_pnl(ts) == IF ts = <<>> THEN 0 ELSE ts[1].pnl + sum_pnl(Tail(ts))

\* a variant of capital_after_close: capital moved by the P&L before commission
capital_after_close_gross(capital, closed) ==
    capital + sum_pnl(closed) + Len(closed) * Paise(commission_per_trade * 2)

\* self.current_capital += trade['pnl'], once per trade closed
capital_after_close(capital, closed) == capital + sum_pnl(closed)

\* a variant of may_enter: a full position list still admits one more
may_enter_at_limit(row, still_open, capital) ==
    /\ row.signal_type # "NONE"
    /\ Len(still_open) <= max_positions
    /\ capital > Paise(position_size_per_trade)

\* the entry test of the bar loop, after the exits of the bar
may_enter(row, still_open, capital) ==
    /\ row.signal_type # "NONE"
    /\ Len(still_open) < max_positions
    /\ capital > Paise(position_size_per_trade)

\* a variant of unrealized_pnl: the last open trade is left out of the sum
RECURSIVE unrealized_pnl_but_last(_, _)
unrealized_pnl_but_last(ts, row) ==
    IF Len(ts) <= 1 THEN 0
    ELSE (calculate_option_premium(row.close, ts[1].strike, ts[1].option_type)
             - ts[1].entry_premium) * ts[1].quantity * option_multiplier
           + unrealized_pnl_but_last(Tail(ts), row)

\* unrealized P&L of the open trades at a row's close
RECURSIVE unrealized_pnl(_, _)
unrealized_pnl(ts, row) ==
    IF ts = <<>> THEN 0
    ELSE (calculate_option_premium(row.close, ts[1].strike, ts[1].option_type)
             - ts[1].entry_premium) * ts[1].quantity * option_multiplier
           + unrealized_pnl(Tail(ts), row)

\* a variant of close_remaining: every second open trade is passed over
RECURSIVE close_remaining_skipping(_, _)
close_remaining_skipping(ts, last_row) ==
    IF ts = <<>> THEN <<>>
    ELSE <<close_trade(ts[1], last_row.timestamp,
                calculate_option_premium(last_row.close, ts[1].strike,
                                         ts[1].option_type),
                last_row.timestamp - ts[1].entry_time, "end_of_data")>>
           \o (IF Len(ts) >= 2
               THEN close_remaining_skipping(Tail(Tail(ts)), last_row)
               ELSE <<>>)

\* a variant of close_remaining: the closure booked as a time-limit exit
RECURSIVE close_remaining_as_time_limit(_, _)
close_remaining_as_time_limit(ts, last_row) ==
    IF ts = <<>> THEN <<>>
    ELSE <<close_trade(ts[1], last_row.timestamp,
                calculate_option_premium(last_row.close, ts[1].strike,
                                         ts[1].option_type),
                last_row.timestamp - ts[1].entry_time, "time_limit")>>
           \o close_remaining_as_time_limit(Tail(ts), last_row)

\* closing what is still open after the loop, at the last row
RECURSIVE close_remaining(_, _)
close_remaining(ts, last_row) ==
    IF ts = <<>> THEN <<>>
    ELSE <<close_trade(ts[1], last_row.timestamp,
                calculate_option_premium(last_row.close, ts[1].strike,
                                         ts[1].option_type),
                last_row.timestamp - ts[1].entry_time, "end_of_data")>>
           \o close_remaining(Tail(ts), last_row)

\* a variant of generate_results: the branch for an empty trade list gives
\* a summary without a trade count
generate_results_no_count(all_trades, capital, initial) ==
    IF all_trades = <<>>
    THEN [summary |-> [total_trades |-> None, total_pnl |-> 0],
          trades |-> "empty", equity_curve |-> "self.equity_curve"]
    ELSE [summary |-> [total_trades |-> Len(all_trades),
                       total_pnl |-> sum_pnl(all_trades)],
          trades |-> "self.trades", equity_curve |-> "self.equity_curve"]

\* _generate_results; 'trades' and 'equity_curve' of the result are the
\* instance's own lists, except the literal empty trade list of the
\* zero-trade branch
generate_results(all_trades, capital, initial) ==
    IF all_trades = <<>>
    THEN [summary |-> [total_trades |-> 0, total_pnl |-> 0],
          trades |-> "empty", equity_curve |-> "self.equity_curve"]
    ELSE [summary |-> [total_trades |-> Len(all_trades),
                       total_pnl |-> sum_pnl(all_trades)],
          trades |-> "self.trades", equity_curve |-> "self.equity_curve"]

NoResult == [summary |-> [total_trades |-> None, total_pnl |-> 0],
             trades |-> "None", equity_curve |-> "None"]

\* the backtester's variables in the specifications that do not run it
BacktesterUnused ==
    /\ initial_capital = 0
    /\ current_capital = 0
    /\ trades = <<>>
    /\ equity_curve = <<>>
    /\ open_trades = <<>>
    /\ bt_pc = "idle"
    /\ bar = 0
    /\ bt_result = NoResult
    /\ calls = 0

----------------------------------------------------------------------------
(* Risk manager: RiskManager                                               *)

\* RiskManager._default_config; amounts in rupees, fractions in percent
max_risk_per_trade == 2
max_position_size == 50000
min_position_size == 5000
max_daily_loss == 5
max_concurrent_positions == 3
max_trades_per_day == 50
step_down_after_loss == TRUE

\* trade_signal.get('signal_strength', 0.5), in sixths
default_signal_strength == 3

\* the returned messages; the formatted figure that follows the text of
\* some of them in the source is left out
InsufficientCapital == "Insufficient capital for minimum position"
DailyLossLimit      == "Daily loss limit reached"
MaxPositionsLimit   == "Maximum positions limit reached"
DailyTradesLimit    == "Daily trades limit reached"
SizeTooSmall        == "Calculated position size too small"
RiskCheckPassed     == "Risk check passed"

\* RiskManager.__init__: no position, all day counters 0
RiskManagerInit ==
    /\ current_positions = <<>>
    /\ daily_stats = [trades_today |-> 0, pnl_today |-> 0,
                      max_drawdown_today |-> 0, start_capital |-> 0]
    /\ risk_return = [method |-> "__init__", args |-> None, value |-> None]

Abs(x) == IF x < 0 THEN -x ELSE x

\* a variant of calculate_position_size: no step down after a loss
calculate_position_size_no_step_down(trade_signal, capital, stats) ==
    LET base_size_pct == max_risk_per_trade
        signal_strength ==
            IF trade_signal.signal_strength = None
            THEN default_signal_strength
            ELSE trade_signal.signal_strength
        strength_multiplier == Min2(signal_strength * 2, total_conditions)
        performance_multiplier ==
            IF stats.pnl_today < 0 /\ step_down_after_loss THEN 10
            ELSE IF stats.pnl_today > 0 THEN 12
            ELSE 10
        final_size_pct ==
            Min2(base_size_pct * strength_multiplier * performance_multiplier,
                 max_risk_per_trade * 15 * total_conditions)
        position_size ==
            (capital \div 6000) * final_size_pct
              + ((capital % 6000) * final_size_pct) \div 6000
    IN  Max2(position_size, Paise(min_position_size))

\* a variant of calculate_position_size: the size not raised to
\* min_position_size
calculate_position_size_unfloored(trade_signal, capital, stats) ==
    LET base_size_pct == max_risk_per_trade
        signal_strength ==
            IF trade_signal.signal_strength = None
            THEN default_signal_strength
            ELSE trade_signal.signal_strength
        strength_multiplier == Min2(signal_strength * 2, total_conditions)
        performance_multiplier ==
            IF stats.pnl_today < 0 /\ step_down_after_loss THEN 5
            ELSE IF stats.pnl_today > 0 THEN 12
            ELSE 10
        final_size_pct ==
            Min2(base_size_pct * strength_multiplier * performance_multiplier,
                 max_risk_per_trade * 15 * total_conditions)
        position_size ==
            (capital \div 6000) * final_size_pct
              + ((capital % 6000) * final_size_pct) \div 6000
    IN  position_size

\* calculate_position_size, in paise.  The size fraction is kept in units of
\* 1/6000: percent x sixths x tenths.
calculate_position_size(trade_signal, capital, stats) ==
    LET base_size_pct == max_risk_per_trade
        signal_strength ==
            IF trade_signal.signal_strength = None
            THEN default_signal_strength
            ELSE trade_signal.signal_strength
        strength_multiplier == Min2(signal_strength * 2, total_conditions)
        performance_multiplier ==
            IF stats.pnl_today < 0 /\ step_down_after_loss THEN 5
            ELSE IF stats.pnl_today > 0 THEN 12
            ELSE 10
        final_size_pct ==
            Min2(base_size_pct * strength_multiplier * performance_multiplier,
                 max_risk_per_trade * 15 * total_conditions)
        position_size ==
            (capital \div 6000) * final_size_pct
              + ((capital % 6000) * final_size_pct) \div 6000
    IN  Max2(position_size, Paise(min_position_size))

RiskResult(accepted, reason, size) ==
    [accepted |-> accepted, reason |-> reason, position_size |-> size]

\* a variant of check_pre_trade_risk: the capital test excludes the bound
check_pre_trade_risk_strict(trade_signal, capital, positions, stats) ==
    LET daily_loss ==
            /\ stats.pnl_today < 0
            /\ stats.start_capital > 0
            /\ Abs(stats.pnl_today) * 100 >= max_daily_loss * stats.start_capital
        suggested_size == calculate_position_size(trade_signal, capital, stats)
    IN  IF capital < Paise(min_position_size)
        THEN RiskResult(FALSE, InsufficientCapital, 0)
        ELSE IF daily_loss THEN RiskResult(FALSE, DailyLossLimit, 0)
        ELSE IF Len(positions) >= max_concurrent_positions
        THEN RiskResult(FALSE, MaxPositionsLimit, 0)
        ELSE IF stats.trades_today >= max_trades_per_day
        THEN RiskResult(FALSE, DailyTradesLimit, 0)
        ELSE IF suggested_size > Paise(max_position_size)
        THEN RiskResult(TRUE, RiskCheckPassed, Paise(max_position_size))
        ELSE IF suggested_size < Paise(min_position_size)
        THEN RiskResult(FALSE, SizeTooSmall, 0)
        ELSE RiskResult(TRUE, RiskCheckPassed, suggested_size)

\* a variant of check_pre_trade_risk: the open positions tested before the
\* daily loss
check_pre_trade_risk_positions_first(trade_signal, capital, positions, stats) ==
    LET daily_loss ==
            /\ stats.pnl_today < 0
            /\ stats.start_capital > 0
            /\ Abs(stats.pnl_today) * 100 >= max_daily_loss * stats.start_capital
        suggested_size == calculate_position_size(trade_signal, capital, stats)
    IN  IF capital <= Paise(min_position_size)
        THEN RiskResult(FALSE, InsufficientCapital, 0)
        ELSE IF Len(positions) >= max_concurrent_positions
        THEN RiskResult(FALSE, MaxPositionsLimit, 0)
        ELSE IF daily_loss THEN RiskResult(FALSE, DailyLossLimit, 0)
        ELSE IF stats.trades_today >= max_trades_per_day
        THEN RiskResult(FALSE, DailyTradesLimit, 0)
        ELSE IF suggested_size > Paise(max_position_size)
        THEN RiskResult(TRUE, RiskCheckPassed, Paise(max_position_size))
        ELSE IF suggested_size < Paise(min_position_size)
        THEN RiskResult(FALSE, SizeTooSmall, 0)
        ELSE RiskResult(TRUE, RiskCheckPassed, suggested_size)

\* a variant of check_pre_trade_risk: a full position list is not refused
check_pre_trade_risk_lenient(trade_signal, capital, positions, stats) ==
    LET daily_loss ==
            /\ stats.pnl_today < 0
            /\ stats.start_capital > 0
            /\ Abs(stats.pnl_today) * 100 >= max_daily_loss * stats.start_capital
        suggested_size == calculate_position_size(trade_signal, capital, stats)
    IN  IF capital <= Paise(min_position_size)
        THEN RiskResult(FALSE, InsufficientCapital, 0)
        ELSE IF daily_loss THEN RiskResult(FALSE, DailyLossLimit, 0)
        ELSE IF Len(positions) > max_concurrent_positions
        THEN RiskResult(FALSE, MaxPositionsLimit, 0)
        ELSE IF stats.trades_today >= max_trades_per_day
        THEN RiskResult(FALSE, DailyTradesLimit, 0)
        ELSE IF suggested_size > Paise(max_position_size)
        THEN RiskResult(TRUE, RiskCheckPassed, Paise(max_position_size))
        ELSE IF suggested_size < Paise(min_position_size)
        THEN RiskResult(FALSE, SizeTooSmall, 0)
        ELSE RiskResult(TRUE, RiskCheckPassed, suggested_size)

\* a variant of check_pre_trade_risk: the daily loss test excludes its bound
check_pre_trade_risk_loss_gt(trade_signal, capital, positions, stats) ==
    LET daily_loss ==
            /\ stats.pnl_today < 0
            /\ stats.start_capital > 0
            /\ Abs(stats.pnl_today) * 100 > max_daily_loss * stats.start_capital
        suggested_size == calculate_position_size(trade_signal, capital, stats)
    IN  IF capital <= Paise(min_position_size)
        THEN RiskResult(FALSE, InsufficientCapital, 0)
        ELSE IF daily_loss THEN RiskResult(FALSE, DailyLossLimit, 0)
        ELSE IF Len(positions) >= max_concurrent_positions
        THEN RiskResult(FALSE, MaxPositionsLimit, 0)
        ELSE IF stats.trades_today >= max_trades_per_day
        THEN RiskResult(FALSE, DailyTradesLimit, 0)
        ELSE IF suggested_size > Paise(max_position_size)
        THEN RiskResult(TRUE, RiskCheckPassed, Paise(max_position_size))
        ELSE IF suggested_size < Paise(min_position_size)
        THEN RiskResult(FALSE, SizeTooSmall, 0)
        ELSE RiskResult(TRUE, RiskCheckPassed, suggested_size)

\* a variant of check_pre_trade_risk: the daily loss taken against a
\* start_capital of 0 as well
check_pre_trade_risk_unguarded(trade_signal, capital, positions, stats) ==
    LET daily_loss ==
            /\ stats.pnl_today < 0
            /\ Abs(stats.pnl_today) * 100 >= max_daily_loss * stats.start_capital
        suggested_size == calculate_position_size(trade_signal, capital, stats)
    IN  IF capital <= Paise(min_position_size)
        THEN RiskResult(FALSE, InsufficientCapital, 0)
        ELSE IF daily_loss THEN RiskResult(FALSE, DailyLossLimit, 0)
        ELSE IF Len(positions) >= max_concurrent_positions
        THEN RiskResult(FALSE, MaxPositionsLimit, 0)
        ELSE IF stats.trades_today >= max_trades_per_day
        THEN RiskResult(FALSE, DailyTradesLimit, 0)
        ELSE IF suggested_size > Paise(max_position_size)
        THEN RiskResult(TRUE, RiskCheckPassed, Paise(max_position_size))
        ELSE IF suggested_size < Paise(min_position_size)
        THEN RiskResult(FALSE, SizeTooSmall, 0)
        ELSE RiskResult(TRUE, RiskCheckPassed, suggested_size)

\* check_pre_trade_risk: (accepted, reason, position_size).  daily_loss_pct
\* is |pnl_today| / start_capital, taken as 0 when start_capital is not
\* positive.
check_pre_trade_risk(trade_signal, capital, positions, stats) ==
    LET daily_loss ==
            /\ stats.pnl_today < 0
            /\ stats.start_capital > 0
            /\ Abs(stats.pnl_today) * 100 >= max_daily_loss * stats.start_capital
        suggested_size == calculate_position_size(trade_signal, capital, stats)
    IN  IF capital <= Paise(min_position_size)
        THEN RiskResult(FALSE, InsufficientCapital, 0)
        ELSE IF daily_loss THEN RiskResult(FALSE, DailyLossLimit, 0)
        ELSE IF Len(positions) >= max_concurrent_positions
        THEN RiskResult(FALSE, MaxPositionsLimit, 0)
        ELSE IF stats.trades_today >= max_trades_per_day
        THEN RiskResult(FALSE, DailyTradesLimit, 0)
        ELSE IF suggested_size > Paise(max_position_size)
        THEN RiskResult(TRUE, RiskCheckPassed, Paise(max_position_size))
        ELSE IF suggested_size < Paise(min_position_size)
        THEN RiskResult(FALSE, SizeTooSmall, 0)
        ELSE RiskResult(TRUE, RiskCheckPassed, suggested_size)

\* update_daily_stats(trade_pnl, new_trade)
update_daily_stats(stats, trade_pnl, new_trade) ==
    LET counted == IF new_trade
                   THEN [stats EXCEPT !.trades_today = @ + 1]
                   ELSE stats
        pnl == counted.pnl_today + trade_pnl
    IN  IF trade_pnl = 0 THEN counted
        ELSE [counted EXCEPT
                !.pnl_today = pnl,
                !.max_drawdown_today = IF pnl < @ THEN pnl ELSE @]

\* a variant of without_position: only the first position of the id goes
RECURSIVE without_position_first(_, _)
without_position_first(positions, position_id) ==
    IF positions = <<>> THEN <<>>
    ELSE IF Head(positions) = position_id THEN Tail(positions)
    ELSE <<Head(positions)>> \o without_position_first(Tail(positions), position_id)

\* the positions remove_position keeps: those with another id
without_position(positions, position_id) ==
    SelectSeq(positions, LAMBDA pos : pos # position_id)

----------------------------------------------------------------------------
(* Construction of the three components, and the GUI's worker              *)

\* no component constructed with a caller's config yet
\* config=None, the default of the three constructors
NoConfig == [none |-> TRUE]

NothingConstructed ==
    component = [class |-> "None", config |-> NoConfig,
                 strategy_config |-> NoConfig]

\* data_lock free; held by the UI thread; a worker holds it under its index
Unlocked == 0
UiThread == -1

\* ITMScalpingGUI.__init__ and create_toolbar: not running, no thread, only
\* the start button enabled
GuiInit ==
    /\ running = FALSE
    /\ buttons = [start_btn |-> "normal", pause_btn |-> "disabled",
                  stop_btn |-> "disabled"]
    /\ workers = <<>>
    /\ gui_current_data = [source |-> "sample", bars |-> 0]
    /\ data_lock = Unlocked
    /\ ui_pc = "idle"

----------------------------------------------------------------------------
(* The signal engine as a state machine: one call of generate_signals      *)

InitSignals ==
    /\ data \in SeriesSet
    /\ data2 = <<>>
    /\ sg_status = "idle"
    /\ sg_status2 = "idle"
    /\ signals_data = <<>>
    /\ signals_data2 = <<>>
    /\ BacktesterUnused
    /\ RiskManagerInit
    /\ NothingConstructed
    /\ GuiInit

\* generate_signals(data) raising the ValueError of calculate_indicators
GenerateSignalsRaise ==
    /\ sg_status = "idle"
    /\ InsufficientData(data)
    /\ sg_status' = "raised"
    /\ UNCHANGED <<data, data2, signals_data, signals_data2, sg_status2>>
    /\ UNCHANGED bt_vars
    /\ UNCHANGED <<risk_vars, cfg_vars, gui_vars, buf_vars>>

\* generate_signals(data) returning the frame with the signal columns
GenerateSignalsReturn ==
    /\ sg_status = "idle"
    /\ ~InsufficientData(data)
    /\ signals_data' = generate_signals(data)
    /\ sg_status' = "returned"
    /\ UNCHANGED <<data, data2, signals_data2, sg_status2>>
    /\ UNCHANGED bt_vars
    /\ UNCHANGED <<risk_vars, cfg_vars, gui_vars, buf_vars>>

NextSignals == GenerateSignalsRaise \/ GenerateSignalsReturn

SpecSignals == InitSignals /\ [][NextSignals]_vars

----------------------------------------------------------------------------
(* The backtester as a state machine: ITMBacktester(initial_capital) and   *)
(* one call of run_backtest(data), the bar loop taken one bar at a time    *)

\* the runs: a session for the frame and the constructor's initial_capital
Scenarios ==
    { [session |-> [start |-> 548, step |-> 1], capital |-> Paise(100000)],
      [session |-> [start |-> 600, step |-> 1], capital |-> Paise(100000)],
      [session |-> [start |-> 600, step |-> 1], capital |-> Paise(10030)],
      [session |-> [start |-> 600, step |-> 1], capital |-> Paise(10000)],
      [session |-> [start |-> 600, step |-> 5], capital |-> Paise(100000)],
      [session |-> [start |-> 894, step |-> 1], capital |-> Paise(100000)] }

SeriesOf(s) ==
    { <<>>, Warm(s, 1) } \cup { Extend(Warm(s, WarmLen), s.step, t) : t \in Tails }

InitBacktest ==
    /\ \E sc \in Scenarios :
          /\ data \in SeriesOf(sc.session)
          /\ initial_capital = sc.capital
    /\ data2 = <<>>
    /\ sg_status = "idle"
    /\ sg_status2 = "idle"
    /\ signals_data = <<>>
    /\ signals_data2 = <<>>
    /\ current_capital = initial_capital
    /\ trades = <<>>
    /\ equity_curve = <<>>
    /\ open_trades = <<>>
    /\ bt_pc = "idle"
    /\ bar = 0
    /\ bt_result = NoResult
    /\ calls = 0
    /\ RiskManagerInit
    /\ NothingConstructed
    /\ GuiInit

HasSignal(frame) == \E k \in 1..Len(frame) : frame[k].signal_type # "NONE"

\* run_backtest: generate_signals raises, and the exception leaves run_backtest
BacktestRaise ==
    /\ bt_pc = "idle"
    /\ InsufficientData(data)
    /\ bt_pc' = "raised"
    /\ calls' = calls + 1
    /\ UNCHANGED <<initial_capital, current_capital, trades, equity_curve,
                   open_trades, bar, bt_result>>
    /\ UNCHANGED sig_vars
    /\ UNCHANGED <<risk_vars, cfg_vars, gui_vars, buf_vars>>

\* run_backtest: no row carries a signal, the early return
BacktestNoSignals ==
    /\ bt_pc = "idle"
    /\ ~InsufficientData(data)
    /\ ~HasSignal(generate_signals(data))
    /\ signals_data' = generate_signals(data)
    /\ bt_result' = generate_results(trades, current_capital, initial_capital)
    /\ bt_pc' = "returned"
    /\ calls' = calls + 1
    /\ UNCHANGED <<initial_capital, current_capital, trades, equity_curve,
                   open_trades, bar>>
    /\ UNCHANGED <<data, data2, sg_status, signals_data2, sg_status2>>
    /\ UNCHANGED <<risk_vars, cfg_vars, gui_vars, buf_vars>>

\* run_backtest: signals found, the bar loop starts with no open trade
BacktestBegin ==
    /\ bt_pc = "idle"
    /\ ~InsufficientData(data)
    /\ HasSignal(generate_signals(data))
    /\ signals_data' = generate_signals(data)
    /\ open_trades' = <<>>
    /\ bar' = 1
    /\ bt_pc' = "loop"
    /\ calls' = calls + 1
    /\ UNCHANGED <<initial_capital, current_capital, trades, equity_curve,
                   bt_result>>
    /\ UNCHANGED <<data, data2, sg_status, signals_data2, sg_status2>>
    /\ UNCHANGED <<risk_vars, cfg_vars, gui_vars, buf_vars>>

\* one iteration of the bar loop: exits, then entry, then the equity sample
ProcessBar ==
    /\ bt_pc = "loop"
    /\ bar <= Len(signals_data)
    /\ LET row  == signals_data[bar]
           ex   == exit_pass(open_trades, row,
                             [closed |-> <<>>, remaining |-> <<>>])
           cap  == capital_after_close(current_capital, ex.closed)
           now_open ==
               IF may_enter(row, ex.remaining, cap)
               THEN Append(ex.remaining, execute_trade(row, bar - 1))
               ELSE ex.remaining
           total_unrealized_pnl == unrealized_pnl(now_open, row)
       IN  /\ current_capital' = cap
           /\ trades' = trades \o ex.closed
           /\ open_trades' = now_open
           /\ equity_curve' = Append(equity_curve,
                 [timestamp |-> row.timestamp,
                  equity |-> cap + total_unrealized_pnl,
                  realized_pnl |-> cap - initial_capital,
                  unrealized_pnl |-> total_unrealized_pnl,
                  open_positions |-> Len(now_open)])
    /\ bar' = bar + 1
    /\ UNCHANGED <<initial_capital, bt_pc, bt_result, calls>>
    /\ UNCHANGED sig_vars
    /\ UNCHANGED <<risk_vars, cfg_vars, gui_vars, buf_vars>>

\* after the loop: close what is still open at the last row, and return
FinishBacktest ==
    /\ bt_pc = "loop"
    /\ bar > Len(signals_data)
    /\ LET closed == close_remaining(open_trades, signals_data[Len(signals_data)])
           cap    == capital_after_close(current_capital, closed)
       IN  /\ current_capital' = cap
           /\ trades' = trades \o closed
           /\ bt_result' = generate_results(trades \o closed, cap, initial_capital)
    /\ open_trades' = <<>>
    /\ bt_pc' = "returned"
    /\ UNCHANGED <<initial_capital, equity_curve, bar, calls>>
    /\ UNCHANGED sig_vars
    /\ UNCHANGED <<risk_vars, cfg_vars, gui_vars, buf_vars>>

NextBacktest ==
    \/ BacktestRaise
    \/ BacktestNoSignals
    \/ BacktestBegin
    \/ ProcessBar
    \/ FinishBacktest

SpecBacktest == InitBacktest /\ [][NextBacktest]_vars

----------------------------------------------------------------------------
(* run_backtest called again on the same ITMBacktester instance            *)

\* calls of run_backtest on one instance
MaxCalls == 2

RerunSession == [start |-> 600, step |-> 1]

\* a frame long enough for the indicators on which nothing happens
QuietFrame(session) == Warm(session, WarmLen + 1)

\* the frames of the first call: the short ones, the quiet one, and the
\* warm-up followed by a tail
RerunSeries ==
    { <<>>, Warm(RerunSession, 1), QuietFrame(RerunSession) }
      \cup { Extend(Warm(RerunSession, WarmLen), RerunSession.step, t) :
               t \in Tails }

InitRerun ==
    /\ data \in RerunSeries
    /\ initial_capital = Paise(100000)
    /\ data2 = <<>>
    /\ sg_status = "idle"
    /\ sg_status2 = "idle"
    /\ signals_data = <<>>
    /\ signals_data2 = <<>>
    /\ current_capital = initial_capital
    /\ trades = <<>>
    /\ equity_curve = <<>>
    /\ open_trades = <<>>
    /\ bt_pc = "idle"
    /\ bar = 0
    /\ bt_result = NoResult
    /\ calls = 0
    /\ RiskManagerInit
    /\ NothingConstructed
    /\ GuiInit

\* a variant of BacktestAgain: the instance starts the next call afresh
BacktestAgain_reset ==
    /\ bt_pc \in { "returned", "raised" }
    /\ calls < MaxCalls
    /\ data' \in { data, QuietFrame(RerunSession) }
    /\ bt_pc' = "idle"
    /\ current_capital' = initial_capital
    /\ trades' = <<>>
    /\ equity_curve' = <<>>
    /\ UNCHANGED <<initial_capital, open_trades, bar, bt_result, calls>>
    /\ UNCHANGED <<data2, sg_status, signals_data, signals_data2, sg_status2>>
    /\ UNCHANGED <<risk_vars, cfg_vars, gui_vars, buf_vars>>

\* the caller, after a call has returned or raised, calls run_backtest
\* again: on the same frame or on the quiet one.  Nothing of the instance is
\* reset between the calls.
BacktestAgain ==
    /\ bt_pc \in { "returned", "raised" }
    /\ calls < MaxCalls
    /\ data' \in { data, QuietFrame(RerunSession) }
    /\ bt_pc' = "idle"
    /\ UNCHANGED <<initial_capital, current_capital, trades, equity_curve,
                   open_trades, bar, bt_result, calls>>
    /\ UNCHANGED <<data2, sg_status, signals_data, signals_data2, sg_status2>>
    /\ UNCHANGED <<risk_vars, cfg_vars, gui_vars, buf_vars>>

NextRerun ==
    \/ BacktestRaise
    \/ BacktestNoSignals
    \/ BacktestBegin
    \/ ProcessBar
    \/ FinishBacktest
    \/ BacktestAgain

SpecRerun == InitRerun /\ [][NextRerun]_vars

----------------------------------------------------------------------------
(* generate_signals called on two frames that share a prefix               *)

LookaheadSession == [start |-> 600, step |-> 1]

\* the frames that agree with df on a prefix and then stop or take one
\* other bar
Alternatives(df, step) ==
    { alt \in { Extend(SubSeq(df, 1, i), step, t) :
                  i \in WarmLen..Len(df),
                  t \in { <<>> } \cup { <<m>> : m \in Moves } } :
        ~InsufficientData(alt) }

InitLookahead ==
    /\ data \in { df \in SeriesOf(LookaheadSession) : ~InsufficientData(df) }
    /\ data2 \in Alternatives(data, LookaheadSession.step)
    /\ sg_status = "idle"
    /\ sg_status2 = "idle"
    /\ signals_data = <<>>
    /\ signals_data2 = <<>>
    /\ BacktesterUnused
    /\ RiskManagerInit
    /\ NothingConstructed
    /\ GuiInit

\* generate_signals(data2), after the call on data
GenerateSignalsSecond ==
    /\ sg_status = "returned"
    /\ sg_status2 = "idle"
    /\ ~InsufficientData(data2)
    /\ signals_data2' = generate_signals(data2)
    /\ sg_status2' = "returned"
    /\ UNCHANGED <<data, data2, sg_status, signals_data>>
    /\ UNCHANGED bt_vars
    /\ UNCHANGED <<risk_vars, cfg_vars, gui_vars, buf_vars>>

NextLookahead == GenerateSignalsReturn \/ GenerateSignalsSecond

SpecLookahead == InitLookahead /\ [][NextLookahead]_vars

----------------------------------------------------------------------------
(* The risk manager as a state machine: any sequence of its calls          *)

\* bounds on what the callers pile up
MaxTracked == 3
MaxTradesTracked == 51
MaxDayPnl == 300000

PositionIds == { "P1", "P2" }

TradePnls == { -300000, 0, 300000 }

StartingCapitals == { 0, Paise(60000) }

RiskCapitals ==
    { 0, Paise(min_position_size), Paise(min_position_size) + 1,
      Paise(100000), Paise(3000000) }

TradeSignals ==
    { [signal_type |-> "BUY_CE", signal_strength |-> None],
      [signal_type |-> "BUY_CE", signal_strength |-> 2],
      [signal_type |-> "BUY_PE", signal_strength |-> 6] }

Returned(method, args, value) ==
    [method |-> method, args |-> args, value |-> value]

InitRisk ==
    /\ data = <<>>
    /\ data2 = <<>>
    /\ sg_status = "idle"
    /\ sg_status2 = "idle"
    /\ signals_data = <<>>
    /\ signals_data2 = <<>>
    /\ BacktesterUnused
    /\ RiskManagerInit
    /\ NothingConstructed
    /\ GuiInit

\* a variant of CheckPreTradeRisk: an accepted check counted as a trade
CheckPreTradeRisk_counting ==
    /\ \E trade_signal \in TradeSignals, capital \in RiskCapitals :
          LET value == check_pre_trade_risk(trade_signal, capital,
                                            current_positions, daily_stats)
          IN  /\ risk_return' =
                    Returned("check_pre_trade_risk",
                             [trade_signal |-> trade_signal,
                              current_capital |-> capital], value)
              /\ daily_stats' =
                    IF value.accepted /\ daily_stats.trades_today < MaxTradesTracked
                    THEN update_daily_stats(daily_stats, 0, TRUE)
                    ELSE daily_stats
    /\ UNCHANGED current_positions
    /\ UNCHANGED <<sig_vars, bt_vars, cfg_vars, gui_vars, buf_vars>>

\* check_pre_trade_risk called with any signal and capital
CheckPreTradeRisk ==
    /\ \E trade_signal \in TradeSignals, capital \in RiskCapitals :
          risk_return' =
              Returned("check_pre_trade_risk",
                       [trade_signal |-> trade_signal,
                        current_capital |-> capital],
                       check_pre_trade_risk(trade_signal, capital,
                                            current_positions, daily_stats))
    /\ UNCHANGED <<current_positions, daily_stats>>
    /\ UNCHANGED <<sig_vars, bt_vars, cfg_vars, gui_vars, buf_vars>>

AddPosition ==
    /\ Len(current_positions) < MaxTracked
    /\ daily_stats.trades_today < MaxTradesTracked
    /\ \E id \in PositionIds :
          current_positions' = Append(current_positions, id)
    /\ daily_stats' = update_daily_stats(daily_stats, 0, TRUE)
    /\ risk_return' = Returned("add_position", None, None)
    /\ UNCHANGED <<sig_vars, bt_vars, cfg_vars, gui_vars, buf_vars>>

RemovePosition ==
    /\ \E id \in PositionIds, pnl \in TradePnls :
          /\ Abs(daily_stats.pnl_today + pnl) <= MaxDayPnl
          /\ current_positions' = without_position(current_positions, id)
          /\ daily_stats' = update_daily_stats(daily_stats, pnl, FALSE)
          /\ risk_return' = Returned("remove_position",
                                     [position_id |-> id, pnl |-> pnl], None)
    /\ UNCHANGED <<sig_vars, bt_vars, cfg_vars, gui_vars, buf_vars>>

UpdateDailyStats ==
    /\ \E trade_pnl \in TradePnls, new_trade \in BOOLEAN :
          /\ Abs(daily_stats.pnl_today + trade_pnl) <= MaxDayPnl
          /\ new_trade => daily_stats.trades_today < MaxTradesTracked
          /\ daily_stats' = update_daily_stats(daily_stats, trade_pnl, new_trade)
    /\ risk_return' = Returned("update_daily_stats", None, None)
    /\ UNCHANGED current_positions
    /\ UNCHANGED <<sig_vars, bt_vars, cfg_vars, gui_vars, buf_vars>>

ResetDailyStats ==
    /\ \E starting_capital \in StartingCapitals :
          /\ daily_stats' = [trades_today |-> 0, pnl_today |-> 0,
                             max_drawdown_today |-> 0,
                             start_capital |-> starting_capital]
          /\ risk_return' =
                Returned("reset_daily_stats",
                         [starting_capital |-> starting_capital], None)
    /\ current_positions' = <<>>
    /\ UNCHANGED <<sig_vars, bt_vars, cfg_vars, gui_vars, buf_vars>>

NextRisk ==
    \/ CheckPreTradeRisk
    \/ AddPosition
    \/ RemovePosition
    \/ UpdateDailyStats
    \/ ResetDailyStats

SpecRisk == InitRisk /\ [][NextRisk]_vars

----------------------------------------------------------------------------
(* The risk manager driven by callers that register a position only       *)
(* directly after an accepted check                                        *)

\* add_position, called directly after check_pre_trade_risk accepted
AddPositionAccepted ==
    /\ risk_return.method = "check_pre_trade_risk"
    /\ risk_return.value.accepted
    /\ \E id \in PositionIds :
          current_positions' = Append(current_positions, id)
    /\ daily_stats' = update_daily_stats(daily_stats, 0, TRUE)
    /\ risk_return' = Returned("add_position", None, None)
    /\ UNCHANGED <<sig_vars, bt_vars, cfg_vars, gui_vars, buf_vars>>

NextRiskProtocol ==
    \/ CheckPreTradeRisk
    \/ AddPositionAccepted
    \/ RemovePosition
    \/ ResetDailyStats

SpecRiskProtocol == InitRisk /\ [][NextRiskProtocol]_vars

----------------------------------------------------------------------------
(* Construction with a caller's config                                     *)

\* the tunables of the three default configs that the callers override here
SignalDefaults ==
    [ema_fast |-> ema_fast, ema_slow |-> ema_slow, rsi_period |-> rsi_period,
     volume_period |-> volume_period, min_confidence |-> min_confidence]

RiskDefaults ==
    [max_risk_per_trade |-> max_risk_per_trade,
     min_position_size |-> min_position_size,
     max_daily_loss |-> max_daily_loss,
     max_concurrent_positions |-> max_concurrent_positions,
     max_trades_per_day |-> max_trades_per_day]

BacktestDefaults ==
    [position_size_per_trade |-> position_size_per_trade,
     max_positions |-> max_positions,
     force_exit_minutes |-> force_exit_minutes,
     stop_loss_points |-> stop_loss_points,
     profit_target_1 |-> profit_target_1]

\* the config arguments: None, or a dict with values in and out of range
SignalConfigs ==
    { NoConfig } \cup
    [ema_fast : { -9, 0, 9 }, ema_slow : { 21 }, rsi_period : { -14, 0, 14 },
     volume_period : { 0, 20 }, min_confidence : { -60, 60, 160 }]

RiskConfigs ==
    { NoConfig } \cup
    [max_risk_per_trade : { -2, 2 }, min_position_size : { -5000, 5000 },
     max_daily_loss : { -5, 5 }, max_concurrent_positions : { -3, 3 },
     max_trades_per_day : { -50, 50 }]

BacktestConfigs ==
    { NoConfig } \cup
    [position_size_per_trade : { -10000, 10000 }, max_positions : { -3, 3 },
     force_exit_minutes : { -5, 5 }, stop_loss_points : { -10, 10 },
     profit_target_1 : { -8, 8 }]

\* self.config = config or self._default_config()
config_or_default(config, default) ==
    IF config = NoConfig THEN default ELSE config

InitConfig ==
    /\ data = <<>>
    /\ data2 = <<>>
    /\ sg_status = "idle"
    /\ sg_status2 = "idle"
    /\ signals_data = <<>>
    /\ signals_data2 = <<>>
    /\ BacktesterUnused
    /\ RiskManagerInit
    /\ NothingConstructed
    /\ GuiInit

\* ITMScalpingSignals(config)
ConstructSignals ==
    /\ \E config \in SignalConfigs :
          component' = [class |-> "ITMScalpingSignals",
                        config |-> config_or_default(config, SignalDefaults),
                        strategy_config |-> NoConfig]
    /\ UNCHANGED <<sig_vars, bt_vars, risk_vars, gui_vars, buf_vars>>

\* RiskManager(config)
ConstructRisk ==
    /\ \E config \in RiskConfigs :
          component' = [class |-> "RiskManager",
                        config |-> config_or_default(config, RiskDefaults),
                        strategy_config |-> NoConfig]
    /\ UNCHANGED <<sig_vars, bt_vars, risk_vars, gui_vars, buf_vars>>

\* ITMBacktester(config=config): the same dict goes to its signal engine
ConstructBacktester ==
    /\ \E config \in BacktestConfigs :
          component' = [class |-> "ITMBacktester",
                        config |-> config_or_default(config, BacktestDefaults),
                        strategy_config |->
                            config_or_default(config, SignalDefaults)]
    /\ UNCHANGED <<sig_vars, bt_vars, risk_vars, gui_vars, buf_vars>>

NextConfig == ConstructSignals \/ ConstructRisk \/ ConstructBacktester

SpecConfig == InitConfig /\ [][NextConfig]_vars

----------------------------------------------------------------------------
(* The GUI's trading controls and its data-simulation threads              *)

\* threads one session starts
MaxWorkers == 3

\* a thread is at the test of `while self.running`, inside the body of an
\* iteration, in the sleep that ends it, or has left the loop
InitGui ==
    /\ data = <<>>
    /\ data2 = <<>>
    /\ sg_status = "idle"
    /\ sg_status2 = "idle"
    /\ signals_data = <<>>
    /\ signals_data2 = <<>>
    /\ BacktesterUnused
    /\ RiskManagerInit
    /\ NothingConstructed
    /\ GuiInit

\* start_trading, from the button or the menu
StartTrading ==
    /\ IF ~running
       THEN /\ Len(workers) < MaxWorkers
            /\ running' = TRUE
            /\ buttons' = [start_btn |-> "disabled", pause_btn |-> "normal",
                           stop_btn |-> "normal"]
            /\ workers' = Append(workers, "test")
       ELSE UNCHANGED gui_vars
    /\ UNCHANGED <<sig_vars, bt_vars, risk_vars, cfg_vars, buf_vars>>

\* pause_trading
PauseTrading ==
    /\ IF running
       THEN /\ running' = FALSE
            /\ buttons' = [buttons EXCEPT !.start_btn = "normal",
                                          !.pause_btn = "disabled"]
            /\ UNCHANGED workers
       ELSE UNCHANGED gui_vars
    /\ UNCHANGED <<sig_vars, bt_vars, risk_vars, cfg_vars, buf_vars>>

\* stop_trading
StopTrading ==
    /\ running' = FALSE
    /\ buttons' = [start_btn |-> "normal", pause_btn |-> "disabled",
                   stop_btn |-> "disabled"]
    /\ UNCHANGED workers
    /\ UNCHANGED <<sig_vars, bt_vars, risk_vars, cfg_vars, buf_vars>>

\* emergency_stop (the GUI's position list is not part of this model)
EmergencyStop ==
    /\ running' = FALSE
    /\ UNCHANGED <<buttons, workers>>
    /\ UNCHANGED <<sig_vars, bt_vars, risk_vars, cfg_vars, buf_vars>>

\* data_simulation_loop: the test of `while self.running`
WorkerTest ==
    /\ \E w \in 1..Len(workers) :
          /\ workers[w] = "test"
          /\ workers' = [workers EXCEPT ![w] = IF running THEN "body" ELSE "done"]
    /\ UNCHANGED <<running, buttons>>
    /\ UNCHANGED <<sig_vars, bt_vars, risk_vars, cfg_vars, buf_vars>>

\* data_simulation_loop: the body of an iteration, up to the sleep, or up to
\* an exception, which the loop catches before it tests the flag again
WorkerBody ==
    /\ \E w \in 1..Len(workers), next \in { "sleep", "test" } :
          /\ workers[w] = "body"
          /\ workers' = [workers EXCEPT ![w] = next]
    /\ UNCHANGED <<running, buttons>>
    /\ UNCHANGED <<sig_vars, bt_vars, risk_vars, cfg_vars, buf_vars>>

\* data_simulation_loop: time.sleep(1) returns
WorkerWake ==
    /\ \E w \in 1..Len(workers) :
          /\ workers[w] = "sleep"
          /\ workers' = [workers EXCEPT ![w] = "test"]
    /\ UNCHANGED <<running, buttons>>
    /\ UNCHANGED <<sig_vars, bt_vars, risk_vars, cfg_vars, buf_vars>>

NextGui ==
    \/ StartTrading
    \/ PauseTrading
    \/ StopTrading
    \/ EmergencyStop
    \/ WorkerTest
    \/ WorkerBody
    \/ WorkerWake

SpecGui == InitGui /\ [][NextGui]_vars

----------------------------------------------------------------------------
(* The shared price buffer: the worker's iteration and the UI thread's     *)
(* callbacks, statement by statement where they touch current_data.  A     *)
(* thread at a position is executing the statement of that position.       *)

\* bars a worker adds to a frame, counted up to this number
MaxBars == 2

\* the UI thread runs one callback at a time
UiStartTrading == ui_pc = "idle" /\ StartTrading

UiPauseTrading == ui_pc = "idle" /\ PauseTrading

UiStopTrading == ui_pc = "idle" /\ StopTrading

\* data_simulation_loop: simulate_new_data_bar has read current_data (its
\* last bar, its length, its closes) and returned the new bar
WorkerSimulate ==
    /\ \E w \in 1..Len(workers) :
          /\ workers[w] = "body"
          /\ workers' = [workers EXCEPT ![w] = "acquire"]
    /\ UNCHANGED <<running, buttons>>
    /\ UNCHANGED <<sig_vars, bt_vars, risk_vars, cfg_vars, buf_vars>>

\* data_simulation_loop: `with self.data_lock` entered, once the lock is free
WorkerAcquire ==
    /\ data_lock = Unlocked
    /\ \E w \in 1..Len(workers) :
          /\ workers[w] = "acquire"
          /\ workers' = [workers EXCEPT ![w] = "locked"]
          /\ data_lock' = w
    /\ UNCHANGED <<running, buttons, gui_current_data, ui_pc>>
    /\ UNCHANGED <<sig_vars, bt_vars, risk_vars, cfg_vars>>

\* data_simulation_loop: current_data replaced by itself with the new bar,
\* and the `with` block left
WorkerAppend ==
    /\ \E w \in 1..Len(workers) :
          /\ workers[w] = "locked"
          /\ workers' = [workers EXCEPT ![w] = "signals"]
    /\ gui_current_data' =
          [gui_current_data EXCEPT !.bars = Min2(@ + 1, MaxBars)]
    /\ data_lock' = Unlocked
    /\ UNCHANGED <<running, buttons, ui_pc>>
    /\ UNCHANGED <<sig_vars, bt_vars, risk_vars, cfg_vars>>

\* data_simulation_loop: check_for_signals has read the length and the tail
\* of current_data; the rest of the iteration up to the sleep
WorkerCheckSignals ==
    /\ \E w \in 1..Len(workers) :
          /\ workers[w] = "signals"
          /\ workers' = [workers EXCEPT ![w] = "sleep"]
    /\ UNCHANGED <<running, buttons>>
    /\ UNCHANGED <<sig_vars, bt_vars, risk_vars, cfg_vars, buf_vars>>

\* load_data: the new frame generated, the callback at its `with`
LoadDataBegin ==
    /\ ui_pc = "idle"
    /\ ui_pc' = "load_data"
    /\ UNCHANGED <<gui_current_data, data_lock>>
    /\ UNCHANGED <<sig_vars, bt_vars, risk_vars, cfg_vars, gui_vars>>

\* load_data: `with self.data_lock` entered, once the lock is free
LoadDataAcquire ==
    /\ ui_pc = "load_data"
    /\ data_lock = Unlocked
    /\ data_lock' = UiThread
    /\ ui_pc' = "load_locked"
    /\ UNCHANGED gui_current_data
    /\ UNCHANGED <<sig_vars, bt_vars, risk_vars, cfg_vars, gui_vars>>

\* load_data: current_data replaced by the new frame, the `with` block left
LoadDataWrite ==
    /\ ui_pc = "load_locked"
    /\ gui_current_data' = [source |-> "loaded", bars |-> 0]
    /\ data_lock' = Unlocked
    /\ ui_pc' = "chart"
    /\ UNCHANGED <<sig_vars, bt_vars, risk_vars, cfg_vars, gui_vars>>

\* update_all_displays, scheduled on the UI thread: update_chart starts
UpdateAllDisplays ==
    /\ ui_pc = "idle"
    /\ ui_pc' = "chart"
    /\ UNCHANGED <<gui_current_data, data_lock>>
    /\ UNCHANGED <<sig_vars, bt_vars, risk_vars, cfg_vars, gui_vars>>

\* update_chart has read current_data and drawn it
UpdateChart ==
    /\ ui_pc = "chart"
    /\ ui_pc' = "idle"
    /\ UNCHANGED <<gui_current_data, data_lock>>
    /\ UNCHANGED <<sig_vars, bt_vars, risk_vars, cfg_vars, gui_vars>>

NextBuffer ==
    \/ UiStartTrading
    \/ UiPauseTrading
    \/ UiStopTrading
    \/ WorkerTest
    \/ WorkerSimulate
    \/ WorkerAcquire
    \/ WorkerAppend
    \/ WorkerCheckSignals
    \/ WorkerWake
    \/ LoadDataBegin
    \/ LoadDataAcquire
    \/ LoadDataWrite
    \/ UpdateAllDisplays
    \/ UpdateChart

SpecBuffer == InitGui /\ [][NextBuffer]_vars

----------------------------------------------------------------------------
(* Properties of the backtester                                            *)

\* C1. Backtest conservation: in every state of a run, and when it has
\* returned, current_capital is initial_capital plus the pnl of every trade
\* in the closed-trade list.
C1_Conservation ==
    current_capital = initial_capital + sum_pnl(trades)

\* a finished run with at least two closed trades and a changed capital
C1_Witness ==
    /\ bt_pc = "returned"
    /\ Len(trades) >= 2
    /\ current_capital # initial_capital

\* the row of a frame with a given timestamp
RowAt(frame, t) == CHOOSE k \in 1..Len(frame) : frame[k].timestamp = t

\* the exit rules in their priority order
ExitOrder ==
    << "time_limit", "stop_loss", "profit_target_2", "profit_target_1",
       "reverse_signal" >>

\* whether an exit rule, taken alone, matches a position at a row
RuleMatches(rule, signal_type, row, hold, pnl_points) ==
    CASE rule = "time_limit"      -> hold >= 5
      [] rule = "stop_loss"       -> pnl_points <= -1000
      [] rule = "profit_target_2" -> pnl_points >= 1500
      [] rule = "profit_target_1" -> pnl_points >= 800
      [] rule = "reverse_signal"  ->
            /\ row.signal_type # "NONE"
            /\ row.signal_type # signal_type
            /\ row.signal_strength >= 5

FirstMatch(reason, signal_type, row, hold, pnl_points) ==
    \E j \in 1..Len(ExitOrder) :
        /\ ExitOrder[j] = reason
        /\ RuleMatches(ExitOrder[j], signal_type, row, hold, pnl_points)
        /\ \A i \in 1..(j-1) :
              ~RuleMatches(ExitOrder[i], signal_type, row, hold, pnl_points)

\* C2. Exit priority: a trade closed inside the bar loop records the first
\* matching rule in the order time_limit, stop_loss, profit_target_2,
\* profit_target_1, reverse_signal (so time_limit when the time limit and
\* the stop loss hold on the same bar); a position evaluated at a bar and
\* left open matched no rule there.
C2_ExitPriority ==
    /\ \A i \in 1..Len(trades) :
          LET t == trades[i]
          IN  t.exit_reason # "end_of_data" =>
                FirstMatch(t.exit_reason, t.signal_type,
                           signals_data[RowAt(signals_data, t.exit_time)],
                           t.exit_time - t.entry_time,
                           (t.exit_premium + slippage_points) - t.entry_premium)
    /\ (bt_pc = "loop" /\ bar >= 2) =>
          \A i \in 1..Len(open_trades) :
              LET t   == open_trades[i]
                  row == signals_data[bar - 1]
              IN  t.entry_index + 1 < bar - 1 =>
                    \A j \in 1..Len(ExitOrder) :
                        ~RuleMatches(ExitOrder[j], t.signal_type, row,
                            row.timestamp - t.entry_time,
                            calculate_option_premium(row.close, t.strike,
                                t.option_type) - t.entry_premium)

\* a trade closed for the time limit on a bar where the stop loss held too
C2_Witness ==
    \E i \in 1..Len(trades) :
        /\ trades[i].exit_reason = "time_limit"
        /\ trades[i].exit_time - trades[i].entry_time >= 5
        /\ (trades[i].exit_premium + slippage_points)
              - trades[i].entry_premium <= -1000

\* C3. run_backtest on an empty frame, or on one shorter than the longest
\* lookback (21 bars), returns a zero-trade result and does not raise.
C3_ShortInputReturnsZeroTrades ==
    (calls > 0 /\ Len(data) < 21) =>
        (bt_pc = "returned" /\ bt_result.summary.total_trades = 0)

----------------------------------------------------------------------------
(* Properties of the signal engine                                         *)

\* C4. generate_signals raises exactly when the frame has fewer than 21
\* bars, then with no output column computed, and never changes its input;
\* otherwise it returns one row per input bar.
C4_InsufficientData ==
    /\ [](sg_status # "idle" =>
            /\ sg_status = "raised" <=> Len(data) < 21
            /\ sg_status = "raised" => signals_data = <<>>
            /\ sg_status = "returned" => Len(signals_data) = Len(data))
    /\ [][data' = data]_vars

\* a frame of exactly 21 bars was accepted
C4_Witness ==
    /\ sg_status = "returned"
    /\ Len(data) = 21
    /\ Len(signals_data) = 21

Qualifies(met) == met >= 4

\* C5. Time filter: a bar whose time of day is before market_start +
\* avoid_first_minutes or after market_end - avoid_last_minutes gets
\* signal_type NONE and strength 0, whatever its conditions.
C5_TimeFilter ==
    sg_status = "returned" =>
        \A k \in 1..Len(signals_data) :
            LET tod == data[k].timestamp % 1440
            IN  (tod < market_start + avoid_first_minutes
                   \/ tod > market_end - avoid_last_minutes)
                => /\ signals_data[k].signal_type = "NONE"
                   /\ signals_data[k].signal_strength = 0

\* a bar inside the opening margin that meets four bullish conditions
C5_Witness ==
    /\ sg_status = "returned"
    /\ \E k \in 2..Len(data) :
          /\ data[k].timestamp % 1440 < 570
          /\ Qualifies(bullish_conditions_met(calculate_indicators(data), k))
          /\ signals_data[k].signal_type = "NONE"

C7_TieBreak ==
    sg_status = "returned" =>
        LET ind == calculate_indicators(data)
        IN \A k \in 2..Len(signals_data) :
                (/\ check_time_filter(data[k].timestamp)
                 /\ Qualifies(bullish_conditions_met(ind, k))
                 /\ Qualifies(bearish_conditions_met(ind, k)))
                => /\ signals_data[k].signal_type = "BUY_PE"
                   /\ signals_data[k].signal_strength
                        = bearish_conditions_met(ind, k)

\* a bar on which both directions qualify
C7_Witness ==
    /\ sg_status = "returned"
    /\ \E k \in 2..Len(data) :
          LET ind == calculate_indicators(data)
          IN  /\ check_time_filter(data[k].timestamp)
              /\ Qualifies(bullish_conditions_met(ind, k))
              /\ Qualifies(bearish_conditions_met(ind, k))
              /\ signals_data[k].signal_type = "BUY_PE"

\* C8. No lookahead: two frames of sufficient length that agree on the bars
\* up to i get the same signal_type and signal_strength at bar i.
C8_NoLookahead ==
    (sg_status = "returned" /\ sg_status2 = "returned") =>
        \A i \in 1..Min2(Len(data), Len(data2)) :
            (\A j \in 1..i : data[j] = data2[j])
            => /\ signals_data[i].signal_type = signals_data2[i].signal_type
               /\ signals_data[i].signal_strength
                    = signals_data2[i].signal_strength

\* two frames that part after a bar carrying a signal, and get different
\* signals on the bar after it
C8_Witness ==
    /\ sg_status = "returned"
    /\ sg_status2 = "returned"
    /\ \E i \in 1..(Min2(Len(data), Len(data2)) - 1) :
          /\ \A j \in 1..i : data[j] = data2[j]
          /\ data[i+1] # data2[i+1]
          /\ signals_data[i].signal_type # "NONE"
          /\ signals_data2[i].signal_type = signals_data[i].signal_type
          /\ signals_data[i+1].signal_type # signals_data2[i+1].signal_type

----------------------------------------------------------------------------
(* Properties of the risk manager                                          *)

\* the four rejection conditions, each taken alone, at a capital
CapitalFails(capital) == capital <= 500000

DailyLossFails ==
    /\ daily_stats.pnl_today < 0
    /\ daily_stats.start_capital > 0
    /\ -daily_stats.pnl_today * 20 >= daily_stats.start_capital

PositionsFail == Len(current_positions) >= 3

TradesFail == daily_stats.trades_today >= 50

\* C9. check_pre_trade_risk tests capital adequacy, the daily loss limit,
\* the maximum of open positions and the maximum of trades per day in that
\* order: the reason returned is that of the first condition that fails,
\* and none of these reasons is returned when none fails.
C9_RejectionOrder ==
    risk_return.method = "check_pre_trade_risk" =>
        LET reason == risk_return.value.reason
            capital == risk_return.args.current_capital
        IN  /\ CapitalFails(capital) => reason = InsufficientCapital
            /\ (~CapitalFails(capital) /\ DailyLossFails)
                  => reason = DailyLossLimit
            /\ (~CapitalFails(capital) /\ ~DailyLossFails /\ PositionsFail)
                  => reason = MaxPositionsLimit
            /\ (~CapitalFails(capital) /\ ~DailyLossFails /\ ~PositionsFail
                  /\ TradesFail)
                  => reason = DailyTradesLimit
            /\ (~CapitalFails(capital) /\ ~DailyLossFails /\ ~PositionsFail
                  /\ ~TradesFail)
                  => reason \notin { InsufficientCapital, DailyLossLimit,
                                     MaxPositionsLimit, DailyTradesLimit }

\* a check with capital to spare while the daily loss, the positions and
\* the trades limits all fail: the daily loss is the reason
C9_Witness ==
    /\ risk_return.method = "check_pre_trade_risk"
    /\ ~CapitalFails(risk_return.args.current_capital)
    /\ DailyLossFails /\ PositionsFail /\ TradesFail
    /\ risk_return.value.reason = DailyLossLimit
    /\ ~risk_return.value.accepted

\* C10. With current_capital <= min_position_size, check_pre_trade_risk
\* returns (False, the insufficient-capital reason, 0) as an ordinary value,
\* for every value of the day counters and every signal.
C10_InsufficientCapital ==
    (/\ risk_return.method = "check_pre_trade_risk"
     /\ risk_return.args.current_capital <= 500000)
    => risk_return.value =
          [accepted |-> FALSE,
           reason |-> "Insufficient capital for minimum position",
           position_size |-> 0]

\* a check at exactly min_position_size on a day with trades and a profit
C10_Witness ==
    /\ risk_return.method = "check_pre_trade_risk"
    /\ risk_return.args.current_capital = 500000
    /\ daily_stats.trades_today > 0
    /\ daily_stats.pnl_today > 0
    /\ ~risk_return.value.accepted
    /\ risk_return.value.position_size = 0

\* C11. check_pre_trade_risk is a pure check: accepting or rejecting, it
\* leaves trades_today, pnl_today, max_drawdown_today, start_capital and the
\* list of tracked positions as they were.
C11_PureCheck ==
    [][risk_return'.method = "check_pre_trade_risk"
         => /\ daily_stats'.trades_today = daily_stats.trades_today
            /\ daily_stats'.pnl_today = daily_stats.pnl_today
            /\ daily_stats'.max_drawdown_today = daily_stats.max_drawdown_today
            /\ daily_stats'.start_capital = daily_stats.start_capital
            /\ current_positions' = current_positions]_vars

\* an accepted check on a day with a trade counted, a loss booked and a
\* position tracked
C11_Witness ==
    /\ risk_return.method = "check_pre_trade_risk"
    /\ risk_return.value.accepted
    /\ daily_stats.trades_today > 0
    /\ daily_stats.pnl_today < 0
    /\ Len(current_positions) > 0

----------------------------------------------------------------------------
(* Properties of the backtester, continued                                 *)

\* the positions of a list, by the row they were opened at
EntryRows(ts) == { ts[i].entry_index : i \in 1..Len(ts) }

Positions == EntryRows(open_trades) \cup EntryRows(trades)

\* C13. End of data: the return after the bar loop closes every position
\* still open, in list order, at the last bar's premium minus slippage with
\* exit_reason end_of_data; no step forgets a position, so a returned run
\* holds no OPEN position and has recorded one trade per position opened.
C13_EndOfData ==
    /\ []((bt_pc = "returned" /\ bar > 0) =>
            LET last_row == signals_data[Len(signals_data)]
            IN  /\ open_trades = <<>>
                /\ Cardinality(EntryRows(trades)) = Len(trades)
                /\ \A i \in 1..Len(trades) :
                      /\ trades[i].status = "CLOSED"
                      /\ trades[i].exit_reason = "end_of_data" =>
                            /\ trades[i].exit_time = last_row.timestamp
                            /\ trades[i].exit_premium =
                                 calculate_option_premium(last_row.close,
                                     trades[i].strike, trades[i].option_type)
                                   - 50)
    /\ [][(bt_pc = "loop" /\ bt_pc' = "returned") =>
            /\ Len(trades') = Len(trades) + Len(open_trades)
            /\ \A i \in 1..Len(open_trades) :
                  /\ trades'[Len(trades) + i].entry_index
                        = open_trades[i].entry_index
                  /\ trades'[Len(trades) + i].exit_reason = "end_of_data"]_vars
    /\ [][Positions \subseteq
            EntryRows(open_trades') \cup EntryRows(trades')]_vars

\* a finished run that closed two positions at the end of the data
C13_Witness ==
    /\ bt_pc = "returned"
    /\ \E i, j \in 1..Len(trades) :
          /\ i # j
          /\ trades[i].exit_reason = "end_of_data"
          /\ trades[j].exit_reason = "end_of_data"

RECURSIVE SeqSum(_)
SeqSum(xs) == IF xs = <<>> THEN 0 ELSE xs[1] + SeqSum(Tail(xs))

\* the equity of a bar: capital plus, for every open position, premium at
\* the bar's close minus entry premium, times quantity times the multiplier
EquityAt(capital, positions, row) ==
    capital + SeqSum([i \in 1..Len(positions) |->
        (calculate_option_premium(row.close, positions[i].strike,
                                  positions[i].option_type)
           - positions[i].entry_premium) * positions[i].quantity * 75])

\* C14, as stated. Every completed run_backtest over a series of N bars
\* appends exactly N equity-curve samples (here for the first call on an
\* instance, whose curve starts empty).
C14_EveryRunAppendsN ==
    (bt_pc = "returned" /\ calls = 1) => Len(equity_curve) = Len(data)

\* C14, amended. A run_backtest that finds at least one signal appends one
\* sample per bar, in bar order, each with the bar's timestamp and with
\* equity = realized capital after the bar's exits + unrealized P&L of the
\* positions open at the end of the bar, and returns after the sample of
\* the last bar; a run that finds no signal returns before the bar loop and
\* appends none.  No other step touches the curve.
C14_EquityCurve ==
    /\ [][(bt_pc = "loop" /\ bar' = bar + 1) =>
            LET row == signals_data[bar]
            IN  /\ Len(equity_curve') = Len(equity_curve) + 1
                /\ SubSeq(equity_curve', 1, Len(equity_curve)) = equity_curve
                /\ equity_curve'[Len(equity_curve')].timestamp
                      = data[bar].timestamp
                /\ equity_curve'[Len(equity_curve')].equity
                      = EquityAt(current_capital', open_trades', row)]_vars
    /\ [][~(bt_pc = "loop" /\ bar' = bar + 1)
            => equity_curve' = equity_curve]_vars
    /\ [][(bt_pc = "idle" /\ bt_pc' = "returned")
            => ~HasSignal(signals_data')]_vars
    /\ [][(bt_pc = "loop" /\ bt_pc' = "returned")
            => (bar = Len(data) + 1 /\ HasSignal(signals_data))]_vars
    /\ [][(bt_pc = "idle" /\ bt_pc' = "loop") => bar' = 1]_vars

\* a second run on a used instance that has sampled every bar of its frame
\* with a position open on some bar
C14_Witness ==
    /\ bt_pc = "returned"
    /\ calls = 2
    /\ HasSignal(signals_data)
    /\ Len(equity_curve) > Len(data)
    /\ \E k \in 1..Len(equity_curve) :
          /\ equity_curve[k].open_positions > 0
          /\ equity_curve[k].unrealized_pnl # 0

\* the trade list a result carries
ResultTrades ==
    IF bt_result.trades = "self.trades" THEN trades ELSE <<>>

\* C15, as stated. Every call of run_backtest on data with no qualifying
\* signal returns a result with total_trades = 0 and an empty trade list.
C15_EveryCallZeroTrades ==
    (bt_pc = "returned" /\ ~HasSignal(signals_data)) =>
        /\ bt_result.summary.total_trades = 0
        /\ ResultTrades = <<>>

\* C15, amended. A call of run_backtest on data of sufficient length with
\* no qualifying signal never raises; it returns total_trades = 0 and an
\* empty trade list when the instance holds no trade of an earlier call,
\* and otherwise the count and the list of the trades of the earlier calls.
C15_ZeroSignals ==
    /\ bt_pc = "raised" => Len(data) < 21
    /\ (bt_pc = "returned" /\ ~HasSignal(signals_data)) =>
          /\ bt_result.summary.total_trades = Len(trades)
          /\ ResultTrades = trades
          /\ trades = <<>> => bt_result.summary.total_trades = 0

\* a first call on a quiet frame that returned the zero-trade result
C15_Witness ==
    /\ bt_pc = "returned"
    /\ calls = 1
    /\ Len(data) >= 21
    /\ ~HasSignal(signals_data)
    /\ trades = <<>>
    /\ bt_result.summary.total_trades = 0

\* the positions a step has added to the open list
Opened == EntryRows(open_trades') \ EntryRows(open_trades)

\* C18. Entry guard: a bar opens a position only if its signal_type is not
\* NONE and, after the bar's exits, fewer than 3 positions are open and
\* current_capital is above 10000 rupees; a bar opens at most one position,
\* the one of that bar; the open list never holds more than 3 positions.
C18_EntryGuard ==
    /\ [](Len(open_trades) <= 3)
    /\ [][(bt_pc = "loop" /\ bar' = bar + 1) =>
            /\ Cardinality(Opened) <= 1
            /\ Len(open_trades') <= Len(open_trades) + 1
            /\ Opened # {} =>
                  /\ Opened = { bar - 1 }
                  /\ open_trades'[Len(open_trades')].entry_index = bar - 1
                  /\ signals_data[bar].signal_type # "NONE"
                  /\ Len(open_trades') - 1 < 3
                  /\ current_capital' > 1000000]_vars
    /\ [][~(bt_pc = "loop" /\ bar' = bar + 1) => Opened = {}]_vars

\* a bar with a signal was processed with three positions open, and opened
\* none
C18_Witness ==
    /\ bt_pc = "loop"
    /\ bar >= 2
    /\ signals_data[bar - 1].signal_type # "NONE"
    /\ Len(open_trades) = 3
    /\ (bar - 2) \notin EntryRows(open_trades)

\* C19. Time limit: once a bar is processed no position is open whose hold
\* time at that bar is 5 minutes or more, so a position is closed at the
\* first bar that lies 5 minutes or more after its entry, if not before.
C19_TimeLimit ==
    /\ (bt_pc = "loop" /\ bar >= 2) =>
          \A i \in 1..Len(open_trades) :
              signals_data[bar - 1].timestamp - open_trades[i].entry_time < 5
    /\ \A i \in 1..Len(trades) :
          \A k \in 1..Len(signals_data) :
              (/\ k > trades[i].entry_index + 1
               /\ signals_data[k].timestamp < trades[i].exit_time)
              => signals_data[k].timestamp - trades[i].entry_time < 5

\* a position closed for the time limit at a hold time of exactly 5 minutes
\* that matched no other exit rule
C19_Witness ==
    \E i \in 1..Len(trades) :
        /\ trades[i].exit_reason = "time_limit"
        /\ trades[i].hold_time_minutes = 5
        /\ trades[i].pnl_points > -1000
        /\ trades[i].pnl_points < 750

\* C20. Check then register: when add_position is called only directly
\* after check_pre_trade_risk accepted, at most 3 positions are tracked and
\* trades_today is at most 50, whatever the interleaving of add_position,
\* remove_position and reset_daily_stats.
C20_ProtocolLimits ==
    /\ Len(current_positions) <= 3
    /\ daily_stats.trades_today <= 50

\* both limits met at once, by a registration that followed an accepted check
C20_Witness ==
    /\ risk_return.method = "add_position"
    /\ Len(current_positions) = 3
    /\ daily_stats.trades_today = 50

----------------------------------------------------------------------------
(* Properties of construction and of the GUI worker                        *)

\* the valid domain of the tunables of a stored config
InDomain(class, config) ==
    CASE class = "ITMScalpingSignals" ->
            /\ config.ema_fast > 0 /\ config.ema_slow > 0
            /\ config.rsi_period > 0 /\ config.volume_period > 0
            /\ config.min_confidence >= 0 /\ config.min_confidence <= 100
      [] class = "RiskManager" ->
            /\ config.max_risk_per_trade >= 0 /\ config.min_position_size >= 0
            /\ config.max_daily_loss >= 0
            /\ config.max_concurrent_positions >= 0
            /\ config.max_trades_per_day >= 0
      [] class = "ITMBacktester" ->
            /\ config.position_size_per_trade >= 0 /\ config.max_positions >= 0
            /\ config.force_exit_minutes >= 0 /\ config.stop_loss_points >= 0
            /\ config.profit_target_1 >= 0
      [] OTHER -> TRUE

\* C16. A signal engine, risk manager or backtester is constructed only with
\* tunables inside their valid domain: a config with a zero or negative
\* period, a min_confidence outside [0,1] or a negative limit makes the
\* construction fail, so no constructed object stores one.
C16_ConfigValidated ==
    InDomain(component.class, component.config)

\* the threads that are inside data_simulation_loop
LoopsRunning == { w \in 1..Len(workers) : workers[w] # "done" }

\* C17. Whatever start, pause, stop and emergency-stop commands the UI
\* thread issues, at most one data-simulation loop is running at any time.
C17_SingleWorkerLoop ==
    Cardinality(LoopsRunning) <= 1

----------------------------------------------------------------------------
(* Properties of the risk manager, continued                               *)

\* C21. Daily loss limit: while start_capital > 0, pnl_today < 0 and the
\* loss is 5% of start_capital or more, every check_pre_trade_risk with
\* current_capital above min_position_size returns (False, the daily-loss
\* reason, 0); the condition ends only by a call that changes pnl_today or
\* by reset_daily_stats.
C21_DailyLossLimit ==
    /\ []((/\ risk_return.method = "check_pre_trade_risk"
           /\ risk_return.args.current_capital > 500000
           /\ DailyLossFails)
          => risk_return.value =
                [accepted |-> FALSE, reason |-> DailyLossLimit,
                 position_size |-> 0])
    /\ [][(DailyLossFails /\ ~DailyLossFails')
            => \/ risk_return'.method = "reset_daily_stats"
               \/ /\ risk_return'.method \in { "remove_position",
                                               "update_daily_stats" }
                  /\ daily_stats'.pnl_today # daily_stats.pnl_today]_vars

\* a check refused for a loss of exactly 5% of start_capital, with room for
\* positions and trades left
C21_Witness ==
    /\ risk_return.method = "check_pre_trade_risk"
    /\ risk_return.args.current_capital > 500000
    /\ daily_stats.pnl_today < 0
    /\ -daily_stats.pnl_today * 20 = daily_stats.start_capital
    /\ ~PositionsFail /\ ~TradesFail
    /\ risk_return.value.reason = DailyLossLimit

\* C22. Day counters: add_position appends one position and adds 1 to
\* trades_today; remove_position(id, pnl) drops every tracked position of
\* that id, adds pnl to pnl_today and leaves trades_today alone;
\* trades_today never decreases and start_capital never changes but by
\* reset_daily_stats, which zeroes the three counters, sets start_capital and
\* empties the tracked positions.
C22_DayCounters ==
    [][/\ risk_return'.method = "add_position" =>
            /\ Len(current_positions') = Len(current_positions) + 1
            /\ SubSeq(current_positions', 1, Len(current_positions))
                 = current_positions
            /\ daily_stats'.trades_today = daily_stats.trades_today + 1
            /\ daily_stats'.pnl_today = daily_stats.pnl_today
       /\ risk_return'.method = "remove_position" =>
            /\ \A i \in 1..Len(current_positions') :
                  current_positions'[i] # risk_return'.args.position_id
            /\ current_positions' =
                  SelectSeq(current_positions,
                            LAMBDA pos : pos # risk_return'.args.position_id)
            /\ daily_stats'.pnl_today =
                  daily_stats.pnl_today + risk_return'.args.pnl
            /\ daily_stats'.trades_today = daily_stats.trades_today
       /\ risk_return'.method = "reset_daily_stats" =>
            /\ daily_stats' =
                  [trades_today |-> 0, pnl_today |-> 0,
                   max_drawdown_today |-> 0,
                   start_capital |-> risk_return'.args.starting_capital]
            /\ current_positions' = <<>>
       /\ risk_return'.method # "reset_daily_stats" =>
            /\ daily_stats'.trades_today >= daily_stats.trades_today
            /\ daily_stats'.start_capital = daily_stats.start_capital]_vars

\* remove_position has dropped the two positions of one id out of three
\* registered, and booked its loss
C22_Witness ==
    /\ risk_return.method = "remove_position"
    /\ risk_return.args.pnl < 0
    /\ daily_stats.pnl_today = risk_return.args.pnl
    /\ daily_stats.trades_today = 3
    /\ Len(current_positions) = 1
    /\ current_positions[1] # risk_return.args.position_id

\* the size fraction of the sizing rule, in units of 1/6000, for a strength
\* in sixths: min(2% x min(2 x strength, 1) x p, 1.5 x 2%)
SizeFraction(strength, pnl_today) ==
    LET s == IF strength = None THEN 3 ELSE strength
        m == IF 2 * s < 6 THEN 2 * s ELSE 6
        p == IF pnl_today < 0 THEN 5 ELSE IF pnl_today > 0 THEN 12 ELSE 10
        f == 2 * m * p
    IN  IF f < 180 THEN f ELSE 180

\* capital x fraction, clamped to [min_position_size, max_position_size]
ClampedSize(capital, fraction) ==
    LET raw == (capital \div 6000) * fraction
                 + ((capital % 6000) * fraction) \div 6000
    IN  IF raw < 500000 THEN 500000
        ELSE IF raw > 5000000 THEN 5000000 ELSE raw

\* C23. Position sizing: an accepted check returns current_capital x f
\* clamped to [min_position_size, max_position_size], with
\* f = min(max_risk_per_trade x min(2 x signal_strength, 1) x p,
\* 1.5 x max_risk_per_trade) and p = 0.5 after a loss, 1.2 after a profit,
\* 1.0 otherwise; the accepted size lies within the two bounds.
C23_PositionSizing ==
    (/\ risk_return.method = "check_pre_trade_risk"
     /\ risk_return.value.accepted)
    => /\ risk_return.value.position_size =
             ClampedSize(risk_return.args.current_capital,
                         SizeFraction(
                             risk_return.args.trade_signal.signal_strength,
                             daily_stats.pnl_today))
       /\ risk_return.value.position_size >= 500000
       /\ risk_return.value.position_size <= 5000000

\* an accepted size strictly inside the bounds on a losing day
C23_Witness ==
    /\ risk_return.method = "check_pre_trade_risk"
    /\ risk_return.value.accepted
    /\ daily_stats.pnl_today < 0
    /\ risk_return.value.position_size > 500000
    /\ risk_return.value.position_size < 5000000

\* C26. The size-too-small rejection is unreachable: when the capital, the
\* daily loss, the positions and the trades tests all pass, the check
\* accepts with a size of at least min_position_size, also when
\* current_capital x fraction is below min_position_size.
C26_NoSizeTooSmall ==
    risk_return.method = "check_pre_trade_risk" =>
        /\ risk_return.value.reason # SizeTooSmall
        /\ (/\ ~CapitalFails(risk_return.args.current_capital)
            /\ ~DailyLossFails /\ ~PositionsFail /\ ~TradesFail)
           => /\ risk_return.value.accepted
              /\ risk_return.value.reason = RiskCheckPassed
              /\ risk_return.value.position_size >= 500000

\* an accepted check whose capital x fraction is far below
\* min_position_size: the size returned is min_position_size
C26_Witness ==
    /\ risk_return.method = "check_pre_trade_risk"
    /\ risk_return.args.current_capital = 500001
    /\ risk_return.value.accepted
    /\ risk_return.value.position_size = 500000

\* C27. While start_capital is 0 (reset_daily_stats never called with a
\* positive capital), check_pre_trade_risk never returns the daily-loss
\* reason, whatever loss remove_position and update_daily_stats have booked.
C27_NoLossLimitWithoutStartCapital ==
    (/\ risk_return.method = "check_pre_trade_risk"
     /\ daily_stats.start_capital = 0)
    => risk_return.value.reason # DailyLossLimit

\* a check accepted with start_capital 0 and a loss booked
C27_Witness ==
    /\ risk_return.method = "check_pre_trade_risk"
    /\ daily_stats.start_capital = 0
    /\ daily_stats.pnl_today = -300000
    /\ daily_stats.max_drawdown_today = -300000
    /\ risk_return.value.accepted

----------------------------------------------------------------------------
(* Properties of the signal engine, continued                              *)

\* C25. With the default configuration, a bar on which the bullish and the
\* bearish column are both set has 4 of the 6 conditions met in each
\* direction: neither column holds 5 or 6 there, so the bearish overwrite
\* never replaces a bullish signal of higher strength.
C25_TieIsFourFour ==
    sg_status = "returned" =>
        LET ind  == calculate_indicators(data)
            bull == generate_bullish_signals(ind)
            bear == generate_bearish_signals(ind)
        IN  \A k \in 1..Len(data) :
                (bull[k] > 0 /\ bear[k] > 0)
                => /\ bull[k] = 4
                   /\ bear[k] = 4
                   /\ bullish_conditions_met(ind, k) = 4
                   /\ bearish_conditions_met(ind, k) = 4
                   /\ signals_data[k].signal_strength >= bull[k]

\* a frame with a bar on which both columns are set, and a bar with five
\* conditions in one direction
C25_Witness ==
    /\ sg_status = "returned"
    /\ LET ind  == calculate_indicators(data)
           bull == generate_bullish_signals(ind)
           bear == generate_bearish_signals(ind)
       IN  /\ \E k \in 1..Len(data) : bull[k] = 4 /\ bear[k] = 4
           /\ \E j \in 1..Len(data) : bull[j] >= 5 \/ bear[j] >= 5

----------------------------------------------------------------------------
(* Properties of the backtester: the order of exits and entries            *)

\* C28. Exits come before the entry at each bar: a trade closed by an exit
\* rule has its exit bar strictly after its entry bar; only end_of_data
\* closes a position on its entry bar, and that bar is the last one, with a
\* hold time of 0.
C28_NoExitOnEntryBar ==
    \A i \in 1..Len(trades) :
        LET t == trades[i]
        IN  /\ t.exit_reason # "end_of_data" =>
                  /\ t.exit_time > t.entry_time
                  /\ RowAt(signals_data, t.exit_time) > t.entry_index + 1
            /\ RowAt(signals_data, t.exit_time) = t.entry_index + 1 =>
                  /\ t.exit_reason = "end_of_data"
                  /\ t.entry_index + 1 = Len(signals_data)
                  /\ t.hold_time_minutes = 0

\* a run that closed one position by an exit rule and another, opened on
\* the last bar, by end_of_data
C28_Witness ==
    /\ bt_pc = "returned"
    /\ \E i \in 1..Len(trades) :
          /\ trades[i].exit_reason = "end_of_data"
          /\ trades[i].hold_time_minutes = 0
          /\ trades[i].entry_index + 1 = Len(signals_data)
    /\ \E j \in 1..Len(trades) :
          trades[j].exit_reason \in { "time_limit", "stop_loss",
                                      "profit_target_1", "reverse_signal" }

\* C29. Reversal: when a bar closes a position for reverse_signal and the
\* capital after that bar's exits is above position_size_per_trade, the bar
\* opens a new position of the opposite option type.
C29_Reversal ==
    (bt_pc = "loop" /\ bar >= 2) =>
        \A i \in 1..Len(trades) :
            (/\ trades[i].exit_reason = "reverse_signal"
             /\ trades[i].exit_time = signals_data[bar - 1].timestamp
             /\ current_capital > 1000000)
            => \E j \in 1..Len(open_trades) :
                  /\ open_trades[j].entry_index = bar - 2
                  /\ open_trades[j].entry_time = trades[i].exit_time
                  /\ open_trades[j].option_type # trades[i].option_type

\* a bar has just closed a call for reverse_signal and opened a put
C29_Witness ==
    /\ bt_pc = "loop" /\ bar >= 2
    /\ current_capital > 1000000
    /\ \E i \in 1..Len(trades), j \in 1..Len(open_trades) :
          /\ trades[i].exit_reason = "reverse_signal"
          /\ trades[i].exit_time = signals_data[bar - 1].timestamp
          /\ trades[i].option_type = "CE"
          /\ open_trades[j].entry_index = bar - 2
          /\ open_trades[j].option_type = "PE"

\* C30. run_backtest never resets the capital, the trade list or the
\* equity curve of its instance: between the return of a call and the bar
\* loop of the next nothing of the three changes, the lists only grow, a
\* result carries the whole trade list and the whole curve, and
\* current_capital = initial_capital + the P&L of all trades of all calls.
C30_Accumulation ==
    /\ [](/\ current_capital = initial_capital + sum_pnl(trades)
          /\ bt_pc = "returned" =>
                /\ ResultTrades = trades
                /\ bt_result.equity_curve = "self.equity_curve"
                /\ bt_result.summary.total_trades = Len(trades))
    /\ [][/\ Len(trades') >= Len(trades)
          /\ SubSeq(trades', 1, Len(trades)) = trades
          /\ Len(equity_curve') >= Len(equity_curve)
          /\ SubSeq(equity_curve', 1, Len(equity_curve)) = equity_curve
          /\ initial_capital' = initial_capital]_vars
    /\ [][(bt_pc \in { "returned", "raised", "idle" } /\ bt_pc' # "returned")
            => /\ current_capital' = current_capital
               /\ trades' = trades
               /\ equity_curve' = equity_curve]_vars

\* a second call that traded, on an instance whose first call traded: the
\* result counts the trades of both and the curve holds the bars of both
C30_Witness ==
    /\ bt_pc = "returned"
    /\ calls = 2
    /\ HasSignal(signals_data)
    /\ Len(equity_curve) = 2 * Len(data)
    /\ Len(trades) >= 2
    /\ bt_result.summary.total_trades = Len(trades)
    /\ trades[Len(trades)].exit_time = trades[1].exit_time
    /\ current_capital # initial_capital

----------------------------------------------------------------------------
(* Properties of the shared price buffer                                   *)

\* the statements of the worker that read or write current_data
WorkerAccess == { "body", "locked", "signals" }

\* the statements of the UI thread that read or write current_data
UiAccess == { "load_locked", "chart" }

\* C24. Every read and every write of current_data, by a worker thread and
\* by the UI thread, is made by a thread holding data_lock, so no thread
\* reads the buffer while another thread holds the lock to replace it.
C24_BufferUnderLock ==
    /\ \A w \in 1..Len(workers) :
          workers[w] \in WorkerAccess => data_lock = w
    /\ ui_pc \in UiAccess => data_lock = UiThread

============================================================================
